---- MODULE Spec2Model ----
(***************************************************************************)
(* The session coordination server of christmas-tree (src/unnamed/part_001,*)
(* the custom socket.io server): the process-wide session registry and the *)
(* message handlers registered for every connection.                       *)
(*                                                                         *)
(* One action per handler.  A handler runs to completion, so an action is  *)
(* the whole handler: the registry update and every emit it makes.  While  *)
(* a handler's result stands, `msg` is the message it handled, `out` its   *)
(* emits in order and `prev` the registry it started from, so that what a  *)
(* handler did can be stated about a single state; Returned hands control  *)
(* back to the event loop, which then dispatches the next message.         *)
(*                                                                         *)
(* Socket ids are generated by the server and session ids are chosen by    *)
(* clients; message fields are taken at their declared types (a targetId,  *)
(* fromId or `to` is a socket id, a sessionId is a session id).            *)
(*                                                                         *)
(* The second part is one SessionClient component                          *)
(* (src/components/SessionClient.tsx): its role, its scene state with the  *)
(* 150 ms debounce of scene:update, and the peer connections it owns.  The *)
(* messages of the server reach it in any order.                           *)
(***************************************************************************)
EXTENDS Integers, Sequences, FiniteSets, TLC

\* -------------------------------------------------------------- universe
MaxSockets == 3

Sockets == 1..MaxSockets
SessionIds == {"s1"}

\* `controllerId: null`
Null == 0

\* The display name a socket gives when it joins (names need not be unique).
Names(s) == IF s = 1 THEN {"ann"} ELSE {"bob"}

\* Partial scene objects a scene:update may carry, and photo lists.
ScenePayloads ==
    { [sceneState |-> "CAROUSEL"],
      [sceneState |-> "CHAOS", rotationSpeed |-> 1] }
PhotoLists == { <<"p1">> }
Signals == { "sdp1", "sdp2" }

\* `sceneState: null`, and the `{}` of `session.sceneState || {}`
NullBlob == [isNull |-> TRUE]
EmptyObj == [k \in {} |-> 0]

VARIABLES
    sessions,      \* the registry: session id -> session (a Map)
    sessionOrder,  \* insertion order of the registry's keys
    rooms,         \* socket.io rooms: session id -> sockets that joined it
    connected,     \* sockets whose connection is open
    out,           \* emits of the handler that ran last, in order
    msg,           \* the message that handler handled
    prev,          \* the registry before that handler ran
    buried         \* the id of the last session deleted while holding a blob

vars == <<sessions, sessionOrder, rooms, connected, out, msg, prev, buried>>

\* One mounted SessionClient component (src/components/SessionClient.tsx):
\* its React state, its refs, the browser objects it owns, and what its
\* last step did.
VARIABLES
    userId,              \* useState: own socket id, Null before session:joined
    controllerId,        \* useState: the controller the client last heard of
    rendered,            \* isController of the committed render (what the
                         \* callbacks and effects of that render closed over)
    isControllerRef,     \* useRef: the reference cell the socket handlers read
    socketRef,           \* useRef: TRUE while the socket is held
    mounted,             \* the component is mounted
    users,               \* useState: the members, as the server listed them
    pendingRequests,     \* useState: requesterId -> requesterName
    sceneState,          \* useState
    rotationSpeed,       \* useState
    photos,              \* useState
    compressing,         \* uploads whose compression has not finished
    sceneUpdateTimeout,  \* the pending debounce timer, NoTimer when none
    canvasRef,           \* useRef: TRUE once a canvas was handed over
    localStreamRef,      \* useRef: TRUE while a capture stream is held
    liveStreams,         \* capture streams whose tracks are not stopped
    canvasMounted,       \* the canvas held is the canvas of the scene that
                         \* is mounted now
    streamMounted,       \* the stream held was captured from the canvas of
                         \* the scene that is mounted now
    peerConnectionsRef,  \* useRef: keys of the outbound Map (viewer ids)
    openOut,             \* outbound RTCPeerConnections not yet closed
    negotiating,         \* viewers whose offer is still being created
    pendingViewersRef,   \* useRef: the Set, as its insertion order
    viewerPeerRef,       \* useRef: origin of the inbound connection, or Null
    openIn,              \* inbound RTCPeerConnections not yet closed
    answering,           \* origin of the offer whose answer is in the making
    step,                \* the handler, callback or effect that ran last, and
                         \* the socket id its message named
    sent,                \* what that step emitted on the socket, in order
    offered,             \* viewers that step called sendOfferToViewer for,
                         \* in the order of the calls
    closed,              \* outbound connections that step closed
    closedFor,           \* the viewers they were for
    closedIn,            \* inbound connections that step closed
    peersBefore,         \* keys of the outbound Map as that step found it
    queueBefore,         \* pendingViewersRef as that step found it
    timerBefore,         \* the debounce timer as that step found it
    requestsBefore,      \* pendingRequests as that step found it
    toServer,            \* the socket: what the client emitted, in order
    toClient,            \* the socket: what the server emitted to it, in order
    got,                 \* the message the client's handler has just handled
    peerTimer,           \* the other member's debounce timer is pending
    view,                \* every client: the userId, users and controllerId
                         \* of its useState
    inbox,               \* every client: what the server emitted to it and
                         \* it has not handled yet, in order
    demand,              \* the other member: the ids its effects saw last,
                         \* its webrtc:viewer-join emits the server has not
                         \* handled, and whose webrtc:offer it got since
    elapsed,             \* time since the last local change of the scene
    burst,               \* changes since the last scene:update (capped)
    sentSince            \* scene:update emissions since the last change

roleVars == <<userId, controllerId, rendered, isControllerRef, socketRef, mounted>>
lobbyVars == <<users, pendingRequests>>
netVars == <<toServer, toClient, got, peerTimer, view, inbox, demand>>
sceneVars == <<sceneState, rotationSpeed, photos>>
timerVars == <<sceneUpdateTimeout, elapsed, burst, sentSince>>
peerVars ==
    <<canvasRef, localStreamRef, liveStreams, canvasMounted, streamMounted,
      peerConnectionsRef, openOut,
      negotiating, pendingViewersRef, viewerPeerRef, openIn, answering>>
localVars ==
    <<roleVars, lobbyVars, sceneVars, compressing, timerVars, peerVars, step,
      sent, offered, closed, closedFor, closedIn, peersBefore, queueBefore,
      timerBefore, requestsBefore>>
clientVars == <<localVars, netVars>>

\* -------------------------------------------------------------- the Map
\* session.users is a Map keyed by socket id: a sequence of {id, name}
\* entries in insertion order.
UserIds(map) == { map[i].id : i \in 1..Len(map) }

UsersHas(map, id) == id \in UserIds(map)

UsersGet(map, id) == map[CHOOSE i \in 1..Len(map) : map[i].id = id]

\* Mutant: a key set again moves to the end.
UsersSetLast(map, id, name) ==
    Append(SelectSeq(map, LAMBDA u : u.id # id), [id |-> id, name |-> name])

\* Map.set: a present key keeps its position and takes the new value.
UsersSet(map, id, name) ==
    IF UsersHas(map, id)
    THEN [i \in 1..Len(map) |->
             IF map[i].id = id THEN [id |-> id, name |-> name] ELSE map[i]]
    ELSE Append(map, [id |-> id, name |-> name])

UsersDelete(map, id) == SelectSeq(map, LAMBDA u : u.id # id)

\* session.users.get(socket.id)?.name || fallback
NameOr(map, id, fallback) ==
    IF UsersHas(map, id) /\ UsersGet(map, id).name # ""
    THEN UsersGet(map, id).name
    ELSE fallback

\* session.users.values().next().value?.id || null
FirstUserId(map) == IF Len(map) > 0 THEN map[1].id ELSE Null

NewSession == [users |-> <<>>, controllerId |-> Null, sceneState |-> NullBlob]

getUsersPayload(session) ==
    [i \in 1..Len(session.users) |->
        [id |-> session.users[i].id, name |-> session.users[i].name]]

\* { ...(a), ...b }
Spread(a, b) ==
    [k \in (DOMAIN a) \cup (DOMAIN b) |-> IF k \in DOMAIN b THEN b[k] ELSE a[k]]

OrEmpty(blob) == IF blob = NullBlob THEN EmptyObj ELSE blob

\* ---------------------------------------------------------------- emits
Emit(to, ev, data) == [to |-> to, ev |-> ev, data |-> data]

\* io.to(id) for a socket id: the socket's own room, which holds the socket
\* while its connection is open (an id of no open connection reaches no one)
Reach(open, id) == {id} \cap open
ToSocket(id) == Reach(connected, id)
\* socket.emit: the socket itself
ToSelf(s) == Reach(connected, s)
\* io.to(sessionId): the room; socket.to(sessionId): the room but the sender
ToRoom(rm, sid) == rm[sid]
\* Mutant: socket.to reaches every room.
ToOthersAnywhere(rm, sid, s) == UNION { rm[x] : x \in DOMAIN rm } \ {s}
ToOthers(rm, sid, s) == rm[sid] \ {s}

Has(sid) == sid \in DOMAIN sessions

Idle == msg.ev = "none"

\* The event loop dispatches message m to its handler.
Handled(m) ==
    /\ Idle
    /\ msg' = m
    /\ prev' = sessions
    /\ buried' =
          IF m.ev = "disconnect"
          THEN LET gone == {sid \in DOMAIN sessions \ DOMAIN sessions' :
                               sessions[sid].sceneState # NullBlob}
               IN  IF gone = {} THEN buried ELSE CHOOSE sid \in gone : TRUE
          ELSE buried
    /\ UNCHANGED clientVars

Frame == UNCHANGED <<sessions, sessionOrder, rooms, connected, buried>>

\* ------------------------------------------------------------- handlers
\* Mutant: a deleted session comes back with a blob.
getSessionKept(sid) ==
    IF Has(sid) THEN sessions[sid]
    ELSE IF buried = sid
    THEN [NewSession EXCEPT !.sceneState = [sceneState |-> "CHAOS"]]
    ELSE NewSession

\* getSession: the session of that id, created empty when absent
getSession(sid) == IF Has(sid) THEN sessions[sid] ELSE NewSession

\* Mutant: every joiner takes the role.
JoinControllerAlways(session, s) == s

\* if (!session.controllerId) session.controllerId = socket.id
JoinController(session, s) ==
    IF session.controllerId = Null THEN s ELSE session.controllerId

\* socket.on('session:join')
SessionJoin(s, sid, name) ==
    LET session == getSession(sid)
        joined  == [session EXCEPT !.users = UsersSet(session.users, s, name)]
        after   == [joined EXCEPT !.controllerId = JoinController(joined, s)]
        rm      == [rooms EXCEPT ![sid] = @ \cup {s}]
    IN  /\ s \in connected
        /\ sessions' = [k \in (DOMAIN sessions) \cup {sid} |->
                           IF k = sid THEN after ELSE sessions[k]]
        /\ sessionOrder' = IF Has(sid) THEN sessionOrder
                           ELSE Append(sessionOrder, sid)
        /\ rooms' = rm
        /\ out' = << Emit(ToSelf(s), "session:joined",
                          [sessionId    |-> sid,
                           userId       |-> s,
                           users        |-> getUsersPayload(after),
                           controllerId |-> after.controllerId,
                           sceneState   |-> after.sceneState]),
                     Emit(ToOthers(rm, sid, s), "session:user-joined",
                          [user |-> [id |-> s, name |-> name]]) >>
        /\ Handled([ev |-> "session:join", from |-> s, sessionId |-> sid,
                    name |-> name])
        /\ UNCHANGED connected

\* Mutants of the authorization check: one that asks for membership in place
\* of the controller role, one that only asks for the session to exist.
AuthorizedMember(sid, s) == Has(sid) /\ UsersHas(sessions[sid].users, s)
AuthorizedAnyone(sid, s) == Has(sid)

\* if (!session || session.controllerId !== socket.id) return
Authorized(sid, s) == Has(sid) /\ sessions[sid].controllerId = s

\* Mutant: the update replaces the blob.
MergeSceneReplace(blob, patch) == patch

\* session.sceneState = { ...(session.sceneState || {}), ...sceneState }
MergeScene(blob, patch) == Spread(OrEmpty(blob), patch)

\* session.sceneState = { ...(session.sceneState || {}), photos }
MergePhotos(blob, list) == Spread(OrEmpty(blob), [photos |-> list])

\* Mutant: the merged blob goes to the whole room.
SceneBroadcastMerged(sid, s, patch) ==
    << Emit(ToRoom(rooms, sid), "scene:state",
            [sceneState |-> Spread(OrEmpty(sessions[sid].sceneState), patch)]) >>

\* socket.to(sessionId).emit('scene:state', { sceneState })
SceneBroadcast(sid, s, patch) ==
    << Emit(ToOthers(rooms, sid, s), "scene:state", [sceneState |-> patch]) >>

\* socket.to(sessionId).emit('photos:update', { photos })
PhotosBroadcast(sid, s, list) ==
    << Emit(ToOthers(rooms, sid, s), "photos:update", [photos |-> list]) >>

\* socket.on('scene:update')
SceneUpdate(s, sid, patch) ==
    /\ s \in connected
    /\ Handled([ev |-> "scene:update", from |-> s, sessionId |-> sid,
                sceneState |-> patch])
    /\ IF Authorized(sid, s)
       THEN /\ sessions' = [sessions EXCEPT ![sid].sceneState =
                                MergeScene(@, patch)]
            /\ out' = SceneBroadcast(sid, s, patch)
       ELSE /\ sessions' = sessions
            /\ out' = <<>>
    /\ UNCHANGED <<sessionOrder, rooms, connected>>

\* socket.on('photos:update')
PhotosUpdate(s, sid, list) ==
    /\ s \in connected
    /\ Handled([ev |-> "photos:update", from |-> s, sessionId |-> sid,
                photos |-> list])
    /\ IF Authorized(sid, s)
       THEN /\ sessions' = [sessions EXCEPT ![sid].sceneState =
                                MergePhotos(@, list)]
            /\ out' = PhotosBroadcast(sid, s, list)
       ELSE /\ sessions' = sessions
            /\ out' = <<>>
    /\ UNCHANGED <<sessionOrder, rooms, connected>>

\* Mutant: the notice goes to the whole room.
RequestEmitsRoom(sid, s) ==
    IF Has(sid) /\ sessions[sid].controllerId # Null
    THEN << Emit(ToRoom(rooms, sid), "control:requested",
                 [requesterId   |-> s,
                  requesterName |-> NameOr(sessions[sid].users, s, "Guest")]) >>
    ELSE <<>>

\* if (!session || !session.controllerId) return;
\* io.to(session.controllerId).emit('control:requested', ...)
RequestEmits(sid, s) ==
    IF Has(sid) /\ sessions[sid].controllerId # Null
    THEN << Emit(ToSocket(sessions[sid].controllerId), "control:requested",
                 [requesterId   |-> s,
                  requesterName |-> NameOr(sessions[sid].users, s, "Guest")]) >>
    ELSE <<>>

\* socket.on('control:request')
ControlRequest(s, sid) ==
    /\ s \in connected
    /\ Handled([ev |-> "control:request", from |-> s, sessionId |-> sid])
    /\ out' = RequestEmits(sid, s)
    /\ Frame

\* io.to(targetId).emit('control:offer', { fromId, fromName })
OfferEmits(sid, s, targetId) ==
    << Emit(ToSocket(targetId), "control:offer",
            [fromId   |-> s,
             fromName |-> NameOr(sessions[sid].users, s, "Host")]) >>

\* socket.on('control:offer')
ControlOffer(s, sid, targetId) ==
    /\ s \in connected
    /\ Handled([ev |-> "control:offer", from |-> s, sessionId |-> sid,
                targetId |-> targetId])
    /\ out' = IF Authorized(sid, s) THEN OfferEmits(sid, s, targetId) ELSE <<>>
    /\ Frame

\* Mutant: the role is taken only when nobody holds it, as on join.
AcceptControllerIfFree(session, s) ==
    IF session.controllerId = Null THEN s ELSE session.controllerId

\* session.controllerId = socket.id
AcceptController(session, s) == s

\* Mutant: the resync carries no blob.
AcceptEmitsNull(sid, s, session) ==
    << Emit(ToRoom(rooms, sid), "control:changed", [controllerId |-> s]),
       Emit(ToSelf(s), "scene:sync", [sceneState |-> NullBlob]) >>

\* the two emits of control:accept
AcceptEmits(sid, s, session) ==
    << Emit(ToRoom(rooms, sid), "control:changed", [controllerId |-> s]),
       Emit(ToSelf(s), "scene:sync", [sceneState |-> session.sceneState]) >>

\* socket.on('control:accept')
ControlAccept(s, sid) ==
    /\ s \in connected
    /\ Handled([ev |-> "control:accept", from |-> s, sessionId |-> sid])
    /\ IF Has(sid)
       THEN /\ sessions' = [sessions EXCEPT ![sid].controllerId =
                                AcceptController(sessions[sid], s)]
            /\ out' = AcceptEmits(sid, s, sessions[sid])
       ELSE /\ sessions' = sessions
            /\ out' = <<>>
    /\ UNCHANGED <<sessionOrder, rooms, connected>>

\* Mutant: the notice goes to the session's controller, not to fromId.
DeclineEmitsToController(sid, s, fromId) ==
    IF Has(sid)
    THEN << Emit(ToSocket(sessions[sid].controllerId), "control:declined",
                 [targetId   |-> s,
                  targetName |-> NameOr(sessions[sid].users, s, "Guest")]) >>
    ELSE <<>>

\* Mutant: the notice is sent without looking the session up.
DeclineEmitsUnchecked(sid, s, fromId) ==
    << Emit(ToSocket(fromId), "control:declined",
            [targetId   |-> s,
             targetName |-> NameOr(getSession(sid).users, s, "Guest")]) >>

\* if (!session) return; io.to(fromId).emit('control:declined', ...)
DeclineEmits(sid, s, fromId) ==
    IF Has(sid)
    THEN << Emit(ToSocket(fromId), "control:declined",
                 [targetId   |-> s,
                  targetName |-> NameOr(sessions[sid].users, s, "Guest")]) >>
    ELSE <<>>

\* socket.on('control:decline')
ControlDecline(s, sid, fromId) ==
    /\ s \in connected
    /\ Handled([ev |-> "control:decline", from |-> s, sessionId |-> sid,
                fromId |-> fromId])
    /\ out' = DeclineEmits(sid, s, fromId)
    /\ Frame

\* Mutant: the join goes to the earliest member (the host of the room).
ViewerJoinEmitsToFirst(sid, s) ==
    IF Has(sid) /\ sessions[sid].controllerId # Null
    THEN << Emit(ToSocket(FirstUserId(sessions[sid].users)),
                 "webrtc:viewer-join", [viewerId |-> s]) >>
    ELSE <<>>

\* if (!session || !session.controllerId) return;
\* io.to(session.controllerId).emit('webrtc:viewer-join', ...)
ViewerJoinEmits(sid, s) ==
    IF Has(sid) /\ sessions[sid].controllerId # Null
    THEN << Emit(ToSocket(sessions[sid].controllerId),
                 "webrtc:viewer-join", [viewerId |-> s]) >>
    ELSE <<>>

\* socket.on('webrtc:viewer-join')
ViewerJoin(s, sid) ==
    /\ s \in connected
    /\ Handled([ev |-> "webrtc:viewer-join", from |-> s, sessionId |-> sid])
    /\ out' = ViewerJoinEmits(sid, s)
    /\ Frame

RelayEvents == {"webrtc:offer", "webrtc:answer", "webrtc:ice"}

\* the payload field of each relayed event: { to, offer }, { to, answer },
\* { to, candidate }
RelayField(ev) ==
    IF ev = "webrtc:offer" THEN "offer"
    ELSE IF ev = "webrtc:answer" THEN "answer" ELSE "candidate"

\* Mutant: the relay answers the sender's room peers too (io.emit).
RelayEmitsAll(s, ev, to, payload) ==
    << Emit(connected, ev, [from |-> s] @@ (RelayField(ev) :> payload)) >>

\* io.to(to).emit(ev, { from: socket.id, <field> })
RelayEmits(s, ev, to, payload) ==
    << Emit(ToSocket(to), ev, [from |-> s] @@ (RelayField(ev) :> payload)) >>

\* socket.on('webrtc:offer'), socket.on('webrtc:answer'), socket.on('webrtc:ice')
Relay(s, ev, to, payload) ==
    /\ s \in connected
    /\ Handled([ev |-> ev, from |-> s, to |-> to, payload |-> payload])
    /\ out' = RelayEmits(s, ev, to, payload)
    /\ Frame

\* Mutant: the latest joiner succeeds.
ElectLast(map) == IF Len(map) > 0 THEN map[Len(map)].id ELSE Null

\* Mutant: no successor is chosen.
ElectNone(map) == Null

\* const nextController = session.users.values().next().value?.id || null
Elect(map) == FirstUserId(map)

\* One turn of the loop of the disconnect handler, for a session the socket
\* is a user of; rm is the rooms once the socket has left them all.
\* Gives the session afterwards and the emits of the turn.
DisconnectTurn(session, sid, s, rm) ==
    LET wasController  == session.controllerId = s
        remaining      == UsersDelete(session.users, s)
        left           == << Emit(ToOthers(rm, sid, s), "session:user-left",
                                  [userId |-> s]) >>
        nextController == Elect(remaining)
    IN  IF wasController
        THEN [session |-> [session EXCEPT !.users = remaining,
                                          !.controllerId = nextController],
              out |-> IF nextController # Null
                      THEN left \o
                           << Emit(ToRoom(rm, sid), "control:changed",
                                   [controllerId |-> nextController]),
                              Emit(Reach(connected \ {s}, nextController),
                                   "scene:sync",
                                   [sceneState |-> session.sceneState]) >>
                      ELSE left]
        ELSE [session |-> [session EXCEPT !.users = remaining], out |-> left]

\* Mutant: an emptied session is kept.
DeletedNever(session) == FALSE

\* if (session.users.size === 0) sessions.delete(sessionId)
Deleted(session) == Len(session.users) = 0

\* for (const [sessionId, session] of sessions.entries()): the emits of the
\* loop over the registry in its insertion order
RECURSIVE DisconnectEmits(_, _, _)
DisconnectEmits(order, s, rm) ==
    IF order = <<>> THEN <<>>
    ELSE LET sid == Head(order)
         IN  (IF UsersHas(sessions[sid].users, s)
              THEN DisconnectTurn(sessions[sid], sid, s, rm).out
              ELSE <<>>)
             \o DisconnectEmits(Tail(order), s, rm)

\* Mutant: the loop stops after the first session of the registry.
DisconnectFirstOnly(sid, s, rm) ==
    IF UsersHas(sessions[sid].users, s) /\ sid = Head(sessionOrder)
    THEN DisconnectTurn(sessions[sid], sid, s, rm).session
    ELSE sessions[sid]

\* the session of the registry after the loop (when it is kept)
DisconnectSession(sid, s, rm) ==
    IF UsersHas(sessions[sid].users, s)
    THEN DisconnectTurn(sessions[sid], sid, s, rm).session
    ELSE sessions[sid]

\* socket.on('disconnect')
Disconnect(s) ==
    LET rm   == [sid \in DOMAIN rooms |-> rooms[sid] \ {s}]
        kept == { sid \in DOMAIN sessions :
                     ~ Deleted(DisconnectSession(sid, s, rm)) }
    IN  /\ s \in connected
        /\ connected' = connected \ {s}
        /\ rooms' = rm
        /\ sessions' = [sid \in kept |-> DisconnectSession(sid, s, rm)]
        /\ sessionOrder' = SelectSeq(sessionOrder, LAMBDA sid : sid \in kept)
        /\ out' = DisconnectEmits(sessionOrder, s, rm)
        /\ Handled([ev |-> "disconnect", from |-> s])

\* The handler has returned: the event loop is free for the next message.
Returned ==
    /\ ~ Idle
    /\ msg' = [ev |-> "none"]
    /\ out' = <<>>
    /\ prev' = sessions
    /\ Frame
    /\ UNCHANGED clientVars

\* =============================================================== client
\* src/components/SessionClient.tsx.  A handler only records the new state
\* (setState); the render that follows, with the effects whose dependencies
\* changed, is the step Commit.  Between the two the callbacks and the
\* reference cell are still those of the previous render.

\* The socket id the server gave this client.
Me == 1
Viewers == Sockets \ {Me}

\* `}, 150);`
DebounceMs == 150
\* Time advances in thirds of the debounce interval.
Quantum == DebounceMs \div 3
\* Changes counted in one burst.
MaxBurst == 2

SceneStates == { "CHAOS", "FORMED", "CAROUSEL", "PHOTO" }
Speeds == { 0, 1 }
DEFAULT_PHOTOS == << "d1" >>
\* Full snapshots, as session:joined and scene:sync carry them.
Snapshots ==
    { [sceneState |-> "CHAOS", rotationSpeed |-> 1],
      [sceneState |-> "CAROUSEL", rotationSpeed |-> 0, photos |-> <<"p1">>] }

NoTimer == [pending |-> FALSE]

\* What a read of a field the object does not have gives: `undefined`.
\* rotationSpeed is a number wherever it is defined.
Undefined == "undefined"
NoSpeed == 0 - 1

\* useMemo(() => userId && controllerId === userId)
isController(u, c) ==
    IF u = Null THEN "null" ELSE IF c = u THEN "true" ELSE "false"
Truthy(v) == v = "true"

\* The values the next render will see, and whether a render is due.
Current ==
    [userId |-> userId, controllerId |-> controllerId,
     sceneState |-> sceneState, rotationSpeed |-> rotationSpeed]
RenderDue == mounted /\ rendered # Current
\* isController as the callbacks of the committed render closed over it.
Closure == Truthy(isController(rendered.userId, rendered.controllerId))

\* ------------------------------------------------- peer connections (refs)
Peers ==
    [canvas |-> canvasRef, stream |-> localStreamRef, live |-> liveStreams,
     canvasMounted |-> canvasMounted, streamMounted |-> streamMounted,
     peers |-> peerConnectionsRef, open |-> openOut, neg |-> negotiating,
     pending |-> pendingViewersRef, viewer |-> viewerPeerRef,
     openIn |-> openIn, answer |-> answering,
     offered |-> <<>>, closed |-> 0, closedFor |-> {}, closedIn |-> 0]

SetPeers(p) ==
    /\ canvasRef' = p.canvas
    /\ localStreamRef' = p.stream
    /\ liveStreams' = p.live
    /\ canvasMounted' = p.canvasMounted
    /\ streamMounted' = p.streamMounted
    /\ peerConnectionsRef' = p.peers
    /\ openOut' = p.open
    /\ negotiating' = p.neg
    /\ pendingViewersRef' = p.pending
    /\ viewerPeerRef' = p.viewer
    /\ openIn' = p.openIn
    /\ offered' = p.offered
    /\ answering' = p.answer
    /\ closed' = p.closed
    /\ closedFor' = p.closedFor
    /\ closedIn' = p.closedIn
    /\ peersBefore' = peerConnectionsRef
    /\ queueBefore' = pendingViewersRef

\* Mutant: the entry is replaced, the connection it held is left open.
createControllerPeerUnclosed(p, v) ==
    [p EXCEPT !.open = @ + 1, !.peers = @ \cup {v}, !.neg = @ \ {v}]

\* pc.close() of the entry it replaces, new RTCPeerConnection, Map.set
createControllerPeerConnection(p, v) ==
    [p EXCEPT !.open = (IF v \in p.peers THEN @ - 1 ELSE @) + 1,
              !.closed = IF v \in p.peers THEN @ + 1 ELSE @,
              !.closedFor = IF v \in p.peers THEN @ \cup {v} ELSE @,
              !.peers = @ \cup {v},
              !.neg = @ \ {v}]

\* The offer is emitted later, when createOffer and setLocalDescription
\* have resolved (OfferCreated).
sendOfferToViewer(p, v) ==
    [createControllerPeerConnection(p, v) EXCEPT
        !.neg = @ \cup {v}, !.offered = Append(@, v)]

RECURSIVE SendOffers(_, _)
SendOffers(p, ids) ==
    IF ids = <<>> THEN p
    ELSE SendOffers(sendOfferToViewer(p, Head(ids)), Tail(ids))

Reverse(q) == [i \in 1..Len(q) |-> q[Len(q) + 1 - i]]

\* Mutant: the queue is drained newest first.
flushNewestFirst(p) ==
    IF ~ socketRef THEN p
    ELSE SendOffers([p EXCEPT !.pending = <<>>], Reverse(p.pending))

\* Array.from(pending.values()); pending.clear(); forEach(sendOfferToViewer)
flushPendingViewers(p) ==
    IF ~ socketRef THEN p
    ELSE SendOffers([p EXCEPT !.pending = <<>>], p.pending)

ensureLocalStream(p) ==
    IF ~ p.canvas THEN p
    ELSE IF p.stream THEN p
    ELSE flushPendingViewers([p EXCEPT !.stream = TRUE, !.live = @ + 1,
                                       !.streamMounted = p.canvasMounted])

\* Mutant: the Map and the queue are cleared, the connections left open.
ClearPeersUnclosed(p) ==
    [p EXCEPT !.peers = {}, !.neg = {}, !.pending = <<>>]

closeControllerPeers(p) ==
    [p EXCEPT !.open = @ - Cardinality(p.peers),
              !.closed = @ + Cardinality(p.peers),
              !.closedFor = @ \cup p.peers,
              !.peers = {}, !.neg = {}, !.pending = <<>>]

stopLocalStream(p) ==
    closeControllerPeers(
        IF p.stream
        THEN [p EXCEPT !.live = @ - 1, !.stream = FALSE, !.streamMounted = FALSE]
        ELSE p)

closeViewerPeer(p) ==
    IF p.viewer # Null
    THEN [p EXCEPT !.openIn = @ - 1, !.viewer = Null, !.answer = Null,
                   !.closedIn = @ + 1]
    ELSE p

\* Mutant: the new connection is stored over the previous one.
createViewerPeerUnclosed(p, from) ==
    [p EXCEPT !.viewer = from, !.openIn = @ + 1]

createViewerPeerConnection(p, from) ==
    [closeViewerPeer(p) EXCEPT !.viewer = from, !.openIn = @ + 1]

\* pendingViewersRef.current.add(viewerId): a Set keeps insertion order
SetAdd(q, v) ==
    IF \E i \in 1..Len(q) : q[i] = v THEN q ELSE Append(q, v)

\* ---------------------------------------------------------- client steps
Min(a, b) == IF a < b THEN a ELSE b
HasField(r, f) == f \in DOMAIN r
\* r.f, which is `undefined` (given as d) when r has no such field
Get(r, f, d) == IF HasField(r, f) THEN r[f] ELSE d

\* JSON.stringify leaves out the properties whose value is undefined.
SceneJson(state, speed) ==
    IF state = Undefined /\ speed = NoSpeed THEN EmptyObj
    ELSE IF state = Undefined THEN [rotationSpeed |-> speed]
    ELSE IF speed = NoSpeed THEN [sceneState |-> state]
    ELSE [sceneState |-> state, rotationSpeed |-> speed]

\* The socket of this client is wired to nothing: the messages it is given
\* are inputs, and what it emits is recorded in `sent` only.
NoView == [userId |-> Null, users |-> <<>>, controllerId |-> Null]
NoDemand == [seen |-> <<Null, Null>>, asked |-> 0, offerFrom |-> Null]
Unplugged ==
    /\ demand = NoDemand
    /\ view = [c \in Sockets |-> NoView]
    /\ inbox = [c \in Sockets |-> <<>>]
    /\ toServer = <<>>
    /\ toClient = <<>>
    /\ got = [ev |-> "none"]
    /\ peerTimer = FALSE
Unwired == UNCHANGED netVars

\* What the step was and what it emitted; the server is another process.
DidFor(name, id, emits) ==
    /\ step' = [ev |-> name, id |-> id]
    /\ sent' = emits
    /\ timerBefore' = sceneUpdateTimeout
    /\ requestsBefore' = pendingRequests
    /\ UNCHANGED vars

Did(name, emits) == DidFor(name, Null, emits)

ClientEmit(ev, data) == [ev |-> ev, data |-> data]

\* The socket is connected and its handlers are registered.
Alive == mounted /\ socketRef

PeersSame == SetPeers(Peers)

\* A user as getUsersPayload lists it, the list of a session whose members
\* are its controller and this client, and the list of a session every
\* socket has joined in the order of the ids.
User(id) == [id |-> id, name |-> CHOOSE n \in Names(id) : TRUE]
Roster(c) == IF c = Me THEN << User(Me) >> ELSE << User(c), User(Me) >>
Everyone == [i \in 1..MaxSockets |-> User(i)]

\* socket.on('session:joined')
OnSessionJoined(c, snap, list) ==
    /\ Alive
    /\ userId = Null
    /\ userId' = Me
    /\ users' = list
    /\ controllerId' = c
    /\ IF snap = NullBlob
       THEN UNCHANGED sceneVars
       ELSE /\ sceneState' = Get(snap, "sceneState", Undefined)
            /\ rotationSpeed' = Get(snap, "rotationSpeed", NoSpeed)
            /\ photos' = IF HasField(snap, "photos") THEN snap.photos ELSE photos
    /\ UNCHANGED <<rendered, isControllerRef, socketRef, mounted,
                   pendingRequests, compressing, timerVars>>
    /\ PeersSame
    /\ Did("session:joined", <<>>)

\* socket.on('session:user-joined')
OnUserJoined(user) ==
    /\ Alive
    /\ users' = Append(users, user)
    /\ UNCHANGED <<roleVars, pendingRequests, sceneVars, compressing, timerVars>>
    /\ PeersSame
    /\ DidFor("session:user-joined", user.id, <<>>)

\* Mutant: every pending request is dropped.
WithoutAny(requests, id) == EmptyObj

\* const next = { ...prev }; delete next[userId]
Without(requests, id) == [k \in DOMAIN requests \ {id} |-> requests[k]]

\* socket.on('session:user-left')
OnUserLeft(id) ==
    /\ Alive
    /\ users' = SelectSeq(users, LAMBDA user : user.id # id)
    /\ pendingRequests' = Without(pendingRequests, id)
    /\ UNCHANGED <<roleVars, sceneVars, compressing, timerVars>>
    /\ PeersSame
    /\ DidFor("session:user-left", id, <<>>)

\* socket.on('control:requested'): { ...prev, [requesterId]: requesterName }
OnControlRequested(requesterId, requesterName) ==
    /\ Alive
    /\ pendingRequests' =
          [k \in DOMAIN pendingRequests \cup {requesterId} |->
              IF k = requesterId THEN requesterName ELSE pendingRequests[k]]
    /\ UNCHANGED <<roleVars, users, sceneVars, compressing, timerVars>>
    /\ PeersSame
    /\ DidFor("control:requested", requesterId, <<>>)

\* socket.on('control:offer'): window.confirm decides between the two emits
OnControlOffer(fromId, accepted) ==
    /\ Alive
    /\ UNCHANGED <<roleVars, lobbyVars, sceneVars, compressing, timerVars>>
    /\ PeersSame
    /\ DidFor("control:offer", fromId,
              IF accepted
              THEN << ClientEmit("control:accept", [sessionId |-> "s1"]) >>
              ELSE << ClientEmit("control:decline",
                                 [sessionId |-> "s1", fromId |-> fromId]) >>)

\* socket.on('control:changed')
OnControlChanged(c) ==
    /\ Alive
    /\ controllerId' = c
    /\ pendingRequests' = EmptyObj
    /\ UNCHANGED <<userId, rendered, isControllerRef, socketRef, mounted,
                   users, sceneVars, compressing, timerVars>>
    /\ PeersSame
    /\ DidFor("control:changed", c, <<>>)

\* socket.on('scene:state')
OnSceneState(p) ==
    /\ Alive
    /\ IF isControllerRef
       THEN UNCHANGED sceneVars
       ELSE /\ sceneState' =
                  IF HasField(p, "sceneState") THEN p.sceneState ELSE sceneState
            /\ rotationSpeed' =
                  IF HasField(p, "rotationSpeed") THEN p.rotationSpeed
                  ELSE rotationSpeed
            /\ photos' = IF HasField(p, "photos") THEN p.photos ELSE photos
    /\ UNCHANGED <<roleVars, lobbyVars, compressing, timerVars>>
    /\ PeersSame
    /\ Did("scene:state", <<>>)

\* socket.on('photos:update')
OnPhotosUpdate(list) ==
    /\ Alive
    /\ photos' = IF isControllerRef THEN photos ELSE list
    /\ UNCHANGED <<roleVars, lobbyVars, sceneState, rotationSpeed, compressing, timerVars>>
    /\ PeersSame
    /\ Did("photos:update", <<>>)

\* socket.on('scene:sync')
OnSceneSync(snap) ==
    /\ Alive
    /\ IF snap = NullBlob
       THEN UNCHANGED sceneVars
       ELSE /\ sceneState' = Get(snap, "sceneState", Undefined)
            /\ rotationSpeed' = Get(snap, "rotationSpeed", NoSpeed)
            /\ photos' = IF HasField(snap, "photos") THEN snap.photos ELSE photos
    /\ UNCHANGED <<roleVars, lobbyVars, compressing, timerVars>>
    /\ PeersSame
    /\ Did("scene:sync", <<>>)

\* The scene, with its gesture and upload controls, is rendered only by a
\* render whose isController is true.
SceneMounted == mounted /\ Closure

\* Mutant: the gesture always takes effect.
GestureResultAny(before, newState) == newState

\* The updater of handleGesture's setSceneState
GestureResult(before, newState) ==
    IF newState = "PHOTO" /\ before # "CAROUSEL" THEN before
    ELSE IF before = "PHOTO" /\ newState # "CAROUSEL" THEN before
    ELSE newState

\* The guard of the three callbacks: `if (!isController) return;`
HandlerLive == Closure

handleGesture(newState) ==
    /\ SceneMounted
    /\ sceneState' =
          IF HandlerLive THEN GestureResult(sceneState, newState) ELSE sceneState
    /\ UNCHANGED <<roleVars, lobbyVars, rotationSpeed, photos, compressing, timerVars>>
    /\ PeersSame
    /\ Did("gesture", <<>>)

handleMove(speed) ==
    /\ SceneMounted
    /\ rotationSpeed' = IF HandlerLive THEN speed ELSE rotationSpeed
    /\ UNCHANGED <<roleVars, lobbyVars, sceneState, photos, compressing, timerVars>>
    /\ PeersSame
    /\ Did("move", <<>>)

\* handleUploadFiles up to `await Promise.all(...)`
handleUploadFiles(files) ==
    /\ SceneMounted
    /\ compressing' = IF HandlerLive THEN compressing \cup {files} ELSE compressing
    /\ UNCHANGED <<roleVars, lobbyVars, sceneVars, timerVars>>
    /\ PeersSame
    /\ Did("upload", <<>>)

\* Mutant: the photos are left to the next scene:update.
UploadEmitsNothing(files) == <<>>

\* socketRef.current?.emit('photos:update', { sessionId, photos })
UploadEmits(files) ==
    << ClientEmit("photos:update", [sessionId |-> "s1", photos |-> files]) >>

\* handleUploadFiles after the await: compression has finished.  setPhotos
\* of an unmounted component does nothing, and socketRef.current is then
\* null.
Compressed(files) ==
    /\ files \in compressing
    /\ compressing' = compressing \ {files}
    /\ photos' = IF mounted THEN files ELSE photos
    /\ UNCHANGED <<roleVars, lobbyVars, sceneState, rotationSpeed, timerVars>>
    /\ PeersSame
    /\ Did("compressed", IF socketRef THEN UploadEmits(files) ELSE <<>>)

\* ------------------------------------------------------ render and effects
\* The debounce effect: its cleanup clears the pending timer, its body arms
\* a new one that closes over the rendered sceneState and rotationSpeed.
\* Mutant: a timer that is pending is left to run.
ArmedKeepsFirst ==
    IF sceneUpdateTimeout.pending THEN sceneUpdateTimeout
    ELSE [pending |-> TRUE, left |-> DebounceMs,
          sceneState |-> sceneState, rotationSpeed |-> rotationSpeed]

Armed ==
    [pending |-> TRUE, left |-> DebounceMs,
     sceneState |-> sceneState, rotationSpeed |-> rotationSpeed]
\* Mutant: the cleanup leaves the pending timer alone.
DebounceEffectKeeps(ic) == IF ic /\ socketRef THEN Armed ELSE sceneUpdateTimeout

DebounceEffect(ic) == IF ic /\ socketRef THEN Armed ELSE NoTimer

\* The local stream effect, then the peer effect (both on [isController]).
StreamEffect(p, ic) == IF ~ ic THEN stopLocalStream(p) ELSE ensureLocalStream(p)
PeerEffect(p, ic) == IF ic THEN closeViewerPeer(p) ELSE closeControllerPeers(p)

\* The effect on [controllerId, isController, sessionId, userId]
ViewerJoinEffect(ic) ==
    IF socketRef /\ controllerId # Null /\ userId # Null /\ ~ ic
    THEN << ClientEmit("webrtc:viewer-join", [sessionId |-> "s1"]) >>
    ELSE <<>>

\* `{isController ? (<GrandTreeScene ... />) : (...)}`: a render whose
\* isController is no longer true unmounts the scene, and its canvas with it.
SceneRendered(p, was, ic) ==
    IF Truthy(was) /\ ~ ic
    THEN [p EXCEPT !.canvasMounted = FALSE, !.streamMounted = FALSE]
    ELSE p

\* React renders with the recorded state and runs, in the order they are
\* declared, the effects whose dependencies changed.
Commit ==
    /\ RenderDue
    /\ LET was == isController(rendered.userId, rendered.controllerId)
           now == isController(userId, controllerId)
           ic == Truthy(now)
           roleChanged == was # now
           sceneChanged == \/ rendered.sceneState # sceneState
                           \/ rendered.rotationSpeed # rotationSpeed
           idsChanged == \/ rendered.userId # userId
                         \/ rendered.controllerId # controllerId
       IN /\ rendered' = Current
          /\ isControllerRef' = IF roleChanged THEN ic ELSE isControllerRef
          /\ sceneUpdateTimeout' =
                IF roleChanged \/ sceneChanged THEN DebounceEffect(ic)
                ELSE sceneUpdateTimeout
          /\ SetPeers(IF roleChanged
                      THEN PeerEffect(
                               StreamEffect(SceneRendered(Peers, was, ic), ic),
                               ic)
                      ELSE Peers)
          /\ IF ic /\ sceneChanged
             THEN /\ elapsed' = 0
                  /\ burst' = IF roleChanged \/ sentSince > 0 THEN 1
                              ELSE Min(burst + 1, MaxBurst)
                  /\ sentSince' = 0
             ELSE IF roleChanged
             THEN elapsed' = 0 /\ burst' = 0 /\ sentSince' = 0
             ELSE UNCHANGED <<elapsed, burst, sentSince>>
          /\ Did("commit", IF idsChanged THEN ViewerJoinEffect(ic) ELSE <<>>)
    /\ UNCHANGED <<userId, controllerId, socketRef, mounted, lobbyVars,
                   sceneVars, compressing>>

\* Time passes; a timer that is due fires first.
Tick ==
    /\ mounted
    /\ ~ RenderDue
    /\ sceneUpdateTimeout.pending => sceneUpdateTimeout.left > 0
    /\ elapsed' = Min(elapsed + Quantum, DebounceMs)
    /\ sceneUpdateTimeout' =
          IF sceneUpdateTimeout.pending
          THEN [sceneUpdateTimeout EXCEPT !.left = @ - Quantum]
          ELSE sceneUpdateTimeout
    /\ UNCHANGED <<roleVars, lobbyVars, sceneVars, compressing, burst, sentSince>>
    /\ PeersSame
    /\ Did("tick", <<>>)

\* The callback given to window.setTimeout
TimerFired ==
    /\ sceneUpdateTimeout.pending
    /\ sceneUpdateTimeout.left = 0
    /\ sceneUpdateTimeout' = NoTimer
    /\ sentSince' = Min(sentSince + 1, 2)
    /\ UNCHANGED <<roleVars, lobbyVars, sceneVars, compressing, elapsed, burst>>
    /\ PeersSame
    /\ Did("timer",
           IF socketRef
           THEN << ClientEmit("scene:update",
                     [sessionId |-> "s1",
                      sceneState |->
                         SceneJson(sceneUpdateTimeout.sceneState,
                                   sceneUpdateTimeout.rotationSpeed)]) >>
           ELSE <<>>)

\* ------------------------------------------------------------- signaling
\* socket.on('webrtc:viewer-join')
OnViewerJoin(viewerId) ==
    /\ Alive
    /\ IF ~ isControllerRef
       THEN PeersSame
       ELSE LET p == ensureLocalStream(Peers)
            IN IF ~ p.stream
               THEN SetPeers([p EXCEPT !.pending = SetAdd(@, viewerId)])
               ELSE SetPeers(sendOfferToViewer(p, viewerId))
    /\ UNCHANGED <<roleVars, lobbyVars, sceneVars, compressing, timerVars>>
    /\ DidFor("webrtc:viewer-join", viewerId, <<>>)

\* sendOfferToViewer after its awaits: the offer of a connection that is
\* still open is ready and is emitted (a disconnected socket sends nothing).
OfferCreated(viewerId) ==
    /\ viewerId \in negotiating
    /\ SetPeers([Peers EXCEPT !.neg = @ \ {viewerId}])
    /\ UNCHANGED <<roleVars, lobbyVars, sceneVars, compressing, timerVars>>
    /\ DidFor("offer", viewerId,
           IF socketRef
           THEN << ClientEmit("webrtc:offer", [to |-> viewerId]) >>
           ELSE <<>>)

\* socket.on('webrtc:offer')
OnWebrtcOffer(from) ==
    /\ Alive
    /\ IF isControllerRef
       THEN PeersSame
       ELSE SetPeers([createViewerPeerConnection(Peers, from)
                         EXCEPT !.answer = from])
    /\ UNCHANGED <<roleVars, lobbyVars, sceneVars, compressing, timerVars>>
    /\ DidFor("webrtc:offer", from, <<>>)

\* The webrtc:offer handler after its awaits: the answer of a connection
\* that is still open is ready and is emitted.
AnswerCreated ==
    /\ answering # Null
    /\ SetPeers([Peers EXCEPT !.answer = Null])
    /\ UNCHANGED <<roleVars, lobbyVars, sceneVars, compressing, timerVars>>
    /\ DidFor("answer", answering,
              IF socketRef
              THEN << ClientEmit("webrtc:answer", [to |-> answering]) >>
              ELSE <<>>)

\* onCanvasReady, called by the scene's Canvas once it is created
onCanvasReady ==
    /\ SceneMounted
    /\ LET p == [Peers EXCEPT !.canvas = TRUE, !.canvasMounted = TRUE]
       IN SetPeers(IF isControllerRef THEN ensureLocalStream(p) ELSE p)
    /\ UNCHANGED <<roleVars, lobbyVars, sceneVars, compressing, timerVars>>
    /\ Did("canvas", <<>>)

\* The component unmounts (Leave, or any navigation away).  The cleanups
\* that exist run: the socket effect's and the debounce effect's.
Unmount ==
    /\ mounted
    /\ mounted' = FALSE
    /\ socketRef' = FALSE
    /\ sceneUpdateTimeout' = NoTimer
    /\ UNCHANGED <<userId, controllerId, rendered, isControllerRef, lobbyVars,
                   sceneVars, compressing, elapsed, burst, sentSince>>
    /\ PeersSame
    /\ Did("unmount", <<>>)

\* The component after its first render and effects: the name is known, the
\* socket is created and session:join is on its way.
InitClient ==
    /\ userId = Null
    /\ controllerId = Null
    /\ rendered = [userId |-> Null, controllerId |-> Null,
                   sceneState |-> "FORMED", rotationSpeed |-> 0]
    /\ isControllerRef = FALSE
    /\ socketRef = TRUE
    /\ mounted = TRUE
    /\ users = <<>>
    /\ pendingRequests = EmptyObj
    /\ sceneState = "FORMED"
    /\ rotationSpeed = 0
    /\ photos = DEFAULT_PHOTOS
    /\ compressing = {}
    /\ sceneUpdateTimeout = NoTimer
    /\ canvasRef = FALSE
    /\ localStreamRef = FALSE
    /\ liveStreams = 0
    /\ canvasMounted = FALSE
    /\ streamMounted = FALSE
    /\ peerConnectionsRef = {}
    /\ openOut = 0
    /\ negotiating = {}
    /\ pendingViewersRef = <<>>
    /\ viewerPeerRef = Null
    /\ openIn = 0
    /\ answering = Null
    /\ step = [ev |-> "mount", id |-> Null]
    /\ sent = << ClientEmit("session:join", [sessionId |-> "s1", name |-> "ann"]) >>
    /\ offered = <<>>
    /\ closed = 0
    /\ closedFor = {}
    /\ closedIn = 0
    /\ peersBefore = {}
    /\ queueBefore = <<>>
    /\ timerBefore = NoTimer
    /\ requestsBefore = EmptyObj
    /\ elapsed = 0
    /\ burst = 0
    /\ sentSince = 0

\* ---------------------------------------------------------- specification
Init ==
    /\ sessions = [sid \in {} |-> NewSession]
    /\ sessionOrder = <<>>
    /\ rooms = [sid \in SessionIds |-> {}]
    /\ connected = Sockets
    /\ out = <<>>
    /\ msg = [ev |-> "none"]
    /\ prev = [sid \in {} |-> NewSession]
    /\ buried = "none"
    /\ InitClient
    /\ Unplugged

Next ==
    \/ \E s \in Sockets, sid \in SessionIds :
           \E name \in Names(s) : SessionJoin(s, sid, name)
    \/ \E s \in Sockets, sid \in SessionIds, p \in ScenePayloads :
           SceneUpdate(s, sid, p)
    \/ \E s \in Sockets, sid \in SessionIds, p \in PhotoLists :
           PhotosUpdate(s, sid, p)
    \/ \E s \in Sockets, sid \in SessionIds : ControlRequest(s, sid)
    \/ \E s \in Sockets, sid \in SessionIds, t \in Sockets :
           ControlOffer(s, sid, t)
    \/ \E s \in Sockets, sid \in SessionIds : ControlAccept(s, sid)
    \/ \E s \in Sockets, sid \in SessionIds, f \in Sockets :
           ControlDecline(s, sid, f)
    \/ \E s \in Sockets, sid \in SessionIds : ViewerJoin(s, sid)
    \/ \E s \in Sockets : Disconnect(s)
    \/ Returned

Spec == Init /\ [][Next]_vars

\* The signaling relay reads and writes no session state: it is run beside
\* the handlers that decide which sockets are connected.
RelayNext ==
    \/ \E s \in Sockets, t \in Sockets, p \in Signals, ev \in RelayEvents :
           Relay(s, ev, t, p)
    \/ \E s \in Sockets, sid \in SessionIds :
           \E name \in Names(s) : SessionJoin(s, sid, name)
    \/ \E s \in Sockets : Disconnect(s)
    \/ Returned

SpecRelay == Init /\ [][RelayNext]_vars

\* Two sessions side by side.  Socket 1 joins both, socket 2 the first and
\* socket 3 the second.  Any socket sends any other message: a scene:update
\* names the first session, a photos:update the second, the others either.
TwoSessions == {"s1", "s2"}
Joiners == { <<1, "s1">>, <<2, "s1">>, <<1, "s2">>, <<3, "s2">> }
TwoPeers == {1, 2, 3}

InitTwo ==
    /\ sessions = [sid \in {} |-> NewSession]
    /\ sessionOrder = <<>>
    /\ rooms = [sid \in TwoSessions |-> {}]
    /\ connected = TwoPeers
    /\ out = <<>>
    /\ msg = [ev |-> "none"]
    /\ prev = [sid \in {} |-> NewSession]
    /\ buried = "none"
    /\ InitClient
    /\ Unplugged

TwoNext ==
    \/ \E j \in Joiners : \E name \in Names(j[1]) : SessionJoin(j[1], j[2], name)
    \/ \E s \in TwoPeers : SceneUpdate(s, "s1", [sceneState |-> "CAROUSEL"])
    \/ \E s \in TwoPeers, p \in PhotoLists : PhotosUpdate(s, "s2", p)
    \/ \E s \in TwoPeers, sid \in TwoSessions : ControlRequest(s, sid)
    \/ \E s \in TwoPeers, sid \in TwoSessions, t \in TwoPeers :
           ControlOffer(s, sid, t)
    \/ \E s \in TwoPeers, sid \in TwoSessions : ControlAccept(s, sid)
    \/ \E s \in TwoPeers, sid \in TwoSessions, f \in TwoPeers :
           ControlDecline(s, sid, f)
    \/ \E s \in TwoPeers, sid \in TwoSessions : ViewerJoin(s, sid)
    \/ \E s \in TwoPeers : Disconnect(s)
    \/ Returned

SpecTwo == InitTwo /\ [][TwoNext]_vars

allVars == <<vars, clientVars>>

\* The role and the scene of one client: the server's messages arrive in
\* any order, the user gestures and uploads, time passes.
SceneNext ==
    \/ \E c \in Sockets, snap \in Snapshots \cup {NullBlob} :
           OnSessionJoined(c, snap, Everyone) /\ Unwired
    \/ \E c \in Sockets : OnControlChanged(c) /\ Unwired
    \/ \E p \in ScenePayloads : OnSceneState(p) /\ Unwired
    \/ \E list \in PhotoLists : OnPhotosUpdate(list) /\ Unwired
    \/ \E snap \in Snapshots \cup {NullBlob} : OnSceneSync(snap) /\ Unwired
    \/ \E g \in SceneStates : handleGesture(g) /\ Unwired
    \/ \E sp \in Speeds : handleMove(sp) /\ Unwired
    \/ \E files \in PhotoLists : handleUploadFiles(files) /\ Unwired
    \/ \E files \in PhotoLists : Compressed(files) /\ Unwired
    \/ Commit /\ Unwired
    \/ Tick /\ Unwired
    \/ TimerFired /\ Unwired
    \/ Unmount /\ Unwired

SpecScene == Init /\ [][SceneNext]_allVars

\* The role and the peer connections of one client: the canvas, the capture
\* stream, the viewers' requests and the offers, with a debounce timer that
\* may be pending when the role changes or the component unmounts.
PeerNext ==
    \/ \E c \in Sockets : OnSessionJoined(c, NullBlob, Everyone) /\ Unwired
    \/ \E c \in Sockets : OnControlChanged(c) /\ Unwired
    \/ \E sp \in Speeds : handleMove(sp) /\ Unwired
    \/ Commit /\ Unwired
    \/ \E v \in Viewers : OnViewerJoin(v) /\ Unwired
    \/ \E v \in Viewers : OfferCreated(v) /\ Unwired
    \/ \E from \in Viewers : OnWebrtcOffer(from) /\ Unwired
    \/ AnswerCreated /\ Unwired
    \/ onCanvasReady /\ Unwired
    \/ Unmount /\ Unwired

SpecPeer == Init /\ [][PeerNext]_allVars

\* The role, the list of members and the requests for control of one
\* client.  The server announces a member once.
LobbyNext ==
    \/ \E c \in Sockets : OnSessionJoined(c, NullBlob, Roster(c)) /\ Unwired
    \/ \E id \in Viewers :
           /\ \A i \in 1..Len(users) : users[i].id # id
           /\ OnUserJoined(User(id))
           /\ Unwired
    \/ \E id \in Viewers : OnUserLeft(id) /\ Unwired
    \/ \E id \in Viewers : \E name \in Names(id) : OnControlRequested(id, name) /\ Unwired
    \/ \E c \in Sockets : OnControlChanged(c) /\ Unwired
    \/ Commit /\ Unwired
    \/ Unmount /\ Unwired

SpecLobby == Init /\ [][LobbyNext]_allVars

\* ------------------------------------------------- server and one client
\* The client of socket Me is wired to the server; socket Other stands for a
\* second client, whose messages are inputs.  Each direction of the socket
\* keeps its order.  Of what either side emits, the wire carries the
\* messages of the session, the role and the scene.
Other == Me + 1
MaxWire == 2
Upstream ==
    { "session:join", "scene:update", "photos:update", "control:accept",
      "control:decline" }
Downstream ==
    { "session:joined", "control:offer", "control:changed", "scene:state",
      "photos:update", "scene:sync" }

\* the session's blob, null when there is no session
Blob == IF Has("s1") THEN sessions["s1"].sceneState ELSE NullBlob

\* The emits of the handler that addressed this client, each with the blob
\* the server held when it emitted them.
ToMe(emits) ==
    LET mine == SelectSeq(emits, LAMBDA e : Me \in e.to /\ e.ev \in Downstream)
    IN  [i \in 1..Len(mine) |->
            [ev |-> mine[i].ev, data |-> mine[i].data, blob |-> Blob]]

\* socket.emit, client side
Posted ==
    toServer' = toServer \o SelectSeq(sent', LAMBDA e : e.ev \in Upstream)

\* The next message for the client is ev; a render that is due is committed
\* before the message is handled.
Arrives(ev) == toClient # <<>> /\ Head(toClient).ev = ev /\ ~ RenderDue
Delivered ==
    /\ got' = Head(toClient)
    /\ toClient' = Tail(toClient)
    /\ Posted
    /\ UNCHANGED <<peerTimer, view, inbox, demand>>

\* a callback, an effect or a timer of the client
Local ==
    /\ Len(toServer) < MaxWire
    /\ Posted
    /\ got' = [ev |-> "none"]
    /\ UNCHANGED <<toClient, peerTimer, view, inbox, demand>>

\* The next message for the server from this client is ev.
Sends(ev) == Idle /\ toServer # <<>> /\ Head(toServer).ev = ev

\* The other client sends a message: it has joined, and this client has
\* handled and rendered what it was sent.
Settled == toServer = <<>> /\ toClient = <<>> /\ ~ RenderDue
OtherSends ==
    /\ Idle /\ Settled
    /\ Has("s1") /\ UsersHas(sessions["s1"].users, Other)

\* The handler has returned: its emits are on the wire and the message it
\* handled is off it.  The other client arms its debounce timer when it
\* gains the role, and the timer is gone once its scene:update is sent or
\* the role is lost.
Flushed ==
    LET holds(reg) == "s1" \in DOMAIN reg /\ reg["s1"].controllerId = Other
    IN  /\ ~ Idle
        /\ msg' = [ev |-> "none"]
        /\ out' = <<>>
        /\ prev' = sessions
        /\ Frame
        /\ toClient' = toClient \o ToMe(out)
        /\ toServer' = IF msg.from = Me THEN Tail(toServer) ELSE toServer
        /\ peerTimer' =
              IF ~ holds(sessions) THEN FALSE
              ELSE IF ~ holds(prev) THEN TRUE
              ELSE IF msg.ev = "scene:update" /\ msg.from = Other THEN FALSE
              ELSE peerTimer
        /\ got' = [ev |-> "none"]
        /\ UNCHANGED <<localVars, view, inbox, demand>>

InitSync ==
    /\ sessions = [sid \in {} |-> NewSession]
    /\ sessionOrder = <<>>
    /\ rooms = [sid \in SessionIds |-> {}]
    /\ connected = {Me, Other}
    /\ out = <<>>
    /\ msg = [ev |-> "none"]
    /\ prev = [sid \in {} |-> NewSession]
    /\ buried = "none"
    /\ InitClient
    /\ toServer = << ClientEmit("session:join",
                                [sessionId |-> "s1", name |-> "ann"]) >>
    /\ toClient = <<>>
    /\ got = [ev |-> "none"]
    /\ peerTimer = FALSE
    /\ view = [c \in Sockets |-> NoView]
    /\ inbox = [c \in Sockets |-> <<>>]
    /\ demand = NoDemand

SyncNext ==
    \* the server handles a message of this client
    \/ Sends("session:join")
       /\ SessionJoin(Me, "s1", Head(toServer).data.name)
    \/ Sends("scene:update")
       /\ SceneUpdate(Me, "s1", Head(toServer).data.sceneState)
    \/ Sends("photos:update")
       /\ PhotosUpdate(Me, "s1", Head(toServer).data.photos)
    \/ Sends("control:accept") /\ ControlAccept(Me, "s1")
    \/ Sends("control:decline")
       /\ ControlDecline(Me, "s1", Head(toServer).data.fromId)
    \* the server handles a message of the other client
    \/ Idle /\ Settled
       /\ \E name \in Names(Other) : SessionJoin(Other, "s1", name)
    \/ OtherSends
       /\ SceneUpdate(Other, "s1", [sceneState |-> "CHAOS", rotationSpeed |-> 1])
    \/ OtherSends /\ PhotosUpdate(Other, "s1", << "p2" >>)
    \/ OtherSends /\ ControlOffer(Other, "s1", Me)
    \/ OtherSends /\ ControlAccept(Other, "s1")
    \/ Idle /\ Settled /\ Disconnect(Other)
    \/ Flushed
    \* the client handles a message of the server
    \/ Arrives("session:joined")
       /\ OnSessionJoined(Head(toClient).data.controllerId,
                          Head(toClient).data.sceneState,
                          Head(toClient).data.users)
       /\ Delivered
    \/ Arrives("control:offer")
       /\ \E accepted \in BOOLEAN :
              OnControlOffer(Head(toClient).data.fromId, accepted)
       /\ Delivered
    \/ Arrives("control:changed")
       /\ OnControlChanged(Head(toClient).data.controllerId)
       /\ Delivered
    \/ Arrives("scene:state")
       /\ OnSceneState(Head(toClient).data.sceneState)
       /\ Delivered
    \/ Arrives("photos:update")
       /\ OnPhotosUpdate(Head(toClient).data.photos)
       /\ Delivered
    \/ Arrives("scene:sync")
       /\ OnSceneSync(Head(toClient).data.sceneState)
       /\ Delivered
    \* the user of the client, its renders and its timer
    \/ handleGesture("CAROUSEL") /\ Local
    \/ \E files \in PhotoLists : handleUploadFiles(files) /\ Local
    \/ \E files \in PhotoLists : Compressed(files) /\ Local
    \/ Commit /\ Local
    \/ sceneUpdateTimeout.pending /\ Tick /\ Local
    \/ TimerFired /\ Local

SpecSync == InitSync /\ [][SyncNext]_allVars

\* ------------------------------------------------ server and every client
\* Three sockets are clients, of which the model keeps the userId, the users
\* and the controllerId.  A client sends session:join once, when it mounts,
\* and the server has handled it before anything else the client does; a
\* client that has joined may send control:accept or go.  The server's
\* emits reach each client in the order of their emission, and the clients
\* handle them at their own pace.  What a client has not handled when it
\* goes is lost with it, so a client goes with nothing left to handle.
Clients == {1, 2, 3}
MaxInbox == 2
ViewEvents ==
    { "session:joined", "session:user-joined", "session:user-left",
      "control:changed" }

\* what the handler that ran emitted to client c
Addressed(emits, c) ==
    LET mine == SelectSeq(emits, LAMBDA e : c \in e.to /\ e.ev \in ViewEvents)
    IN  [i \in 1..Len(mine) |-> [ev |-> mine[i].ev, data |-> mine[i].data]]

\* The handler has returned and its emits are on their way.
Dispatched ==
    /\ ~ Idle
    /\ msg' = [ev |-> "none"]
    /\ out' = <<>>
    /\ prev' = sessions
    /\ Frame
    /\ inbox' = [c \in Sockets |-> inbox[c] \o Addressed(out, c)]
    /\ UNCHANGED <<localVars, toServer, toClient, got, peerTimer, view, demand>>

\* Client c handles the next message the server sent it, which is ev.
Handles(c, ev) ==
    /\ c \in connected
    /\ inbox[c] # <<>> /\ Head(inbox[c]).ev = ev
    /\ inbox' = [inbox EXCEPT ![c] = Tail(@)]
    /\ UNCHANGED <<vars, localVars, toServer, toClient, got, peerTimer, demand>>

\* Mutant: the controller heard of first is kept.
HeardFirst(v, id) ==
    IF v.controllerId = Null THEN [v EXCEPT !.controllerId = id] ELSE v

\* setControllerId(controllerId)
Heard(v, id) == [v EXCEPT !.controllerId = id]

\* Mutant: the newcomer is listed first.
ListedFirst(list, user) == << user >> \o list

\* setUsers((prev) => [...prev, user])
Listed(list, user) == Append(list, user)

\* socket.on('session:joined'), of client c
ViewJoined(c) ==
    /\ Handles(c, "session:joined")
    /\ view' = [view EXCEPT ![c] =
                   Heard([userId |-> Head(inbox[c]).data.userId,
                          users |-> Head(inbox[c]).data.users,
                          controllerId |-> @.controllerId],
                         Head(inbox[c]).data.controllerId)]

\* socket.on('session:user-joined'), of client c
ViewUserJoined(c) ==
    /\ Handles(c, "session:user-joined")
    /\ view' = [view EXCEPT ![c].users = Listed(@, Head(inbox[c]).data.user)]

\* socket.on('session:user-left'), of client c
ViewUserLeft(c) ==
    /\ Handles(c, "session:user-left")
    /\ view' = [view EXCEPT ![c].users =
                   SelectSeq(@, LAMBDA u : u.id # Head(inbox[c]).data.userId)]

\* socket.on('control:changed'), of client c
ViewControlChanged(c) ==
    /\ Handles(c, "control:changed")
    /\ view' = [view EXCEPT ![c] = Heard(@, Head(inbox[c]).data.controllerId)]

ViewsNext ==
    \/ \E c \in Clients :
          /\ c \notin rooms["s1"]
          /\ SessionJoin(c, "s1", CHOOSE n \in Names(c) : TRUE)
    \/ \E c \in Clients :
          /\ c \in rooms["s1"]
          /\ \A k \in Clients : Len(inbox[k]) < MaxInbox
          /\ ControlAccept(c, "s1")
    \/ \E c \in Clients :
          /\ c \in rooms["s1"] /\ inbox[c] = <<>>
          /\ Disconnect(c)
    \/ Dispatched
    \/ \E c \in Clients : ViewJoined(c)
    \/ \E c \in Clients : ViewUserJoined(c)
    \/ \E c \in Clients : ViewUserLeft(c)
    \/ \E c \in Clients : ViewControlChanged(c)

SpecViews == Init /\ [][ViewsNext]_allVars

\* ------------------------------------------------ the offer of the stream
\* The server, the client of socket Me and a second member, Other, of which
\* the model keeps the lobby and its request for the stream.  Other joins,
\* takes the role and offers it back when nothing is under way; the client
\* confirms or declines.  Of what the server emits, the client is given the
\* messages of the role and the requests for the stream, and Other the
\* messages of the role and the offers.
OfferUp == { "session:join", "control:accept", "control:decline", "webrtc:offer" }
OfferDown(c) ==
    IF c = Me
    THEN { "session:joined", "control:changed", "control:offer",
           "webrtc:viewer-join" }
    ELSE { "session:joined", "control:changed", "webrtc:offer" }

\* The handler has returned: its emits are on their way to the two clients
\* and the message it handled is off the wire.
Forwarded ==
    LET for(c) == SelectSeq(out, LAMBDA e : c \in e.to /\ e.ev \in OfferDown(c))
    IN  /\ ~ Idle
        /\ msg' = [ev |-> "none"]
        /\ out' = <<>>
        /\ prev' = sessions
        /\ Frame
        /\ inbox' = [c \in Sockets |->
                        inbox[c] \o [i \in 1..Len(for(c)) |->
                                        [ev |-> for(c)[i].ev, data |-> for(c)[i].data]]]
        /\ toServer' = IF msg.from = Me THEN Tail(toServer) ELSE toServer
        /\ demand' = IF msg.from = Other /\ msg.ev = "webrtc:viewer-join"
                     THEN [demand EXCEPT !.asked = @ - 1]
                     ELSE demand
        /\ UNCHANGED <<localVars, toClient, got, peerTimer, view>>

\* The next message the server sent the client is ev; the client has
\* handled it, and what it emitted is on the wire.
Takes(ev) == inbox[Me] # <<>> /\ Head(inbox[Me]).ev = ev
Taken ==
    /\ inbox' = [inbox EXCEPT ![Me] = Tail(@)]
    /\ toServer' = toServer \o SelectSeq(sent', LAMBDA e : e.ev \in OfferUp)
    /\ UNCHANGED <<toClient, got, peerTimer, view, demand>>

\* a render, an effect or a callback of the client
Own ==
    /\ toServer' = toServer \o SelectSeq(sent', LAMBDA e : e.ev \in OfferUp)
    /\ UNCHANGED <<inbox, toClient, got, peerTimer, view, demand>>

\* Other renders, and its effect on [controllerId, isController, sessionId,
\* userId] emits webrtc:viewer-join when it is not the controller.
ViewCommit ==
    LET ids == << view[Other].userId, view[Other].controllerId >>
    IN  /\ Other \in connected
        /\ demand.seen # ids
        /\ demand' =
              [seen |-> ids,
               asked |-> IF ids[1] # Null /\ ids[2] # Null /\ ids[1] # ids[2]
                         THEN demand.asked + 1 ELSE demand.asked,
               offerFrom |-> IF demand.seen[2] # ids[2] THEN Null
                             ELSE demand.offerFrom]
        /\ UNCHANGED <<vars, localVars, toServer, toClient, got, peerTimer,
                       view, inbox>>

\* socket.on('webrtc:offer'), of Other
ViewOffer ==
    /\ Other \in connected
    /\ inbox[Other] # <<>> /\ Head(inbox[Other]).ev = "webrtc:offer"
    /\ inbox' = [inbox EXCEPT ![Other] = Tail(@)]
    /\ demand' = [demand EXCEPT !.offerFrom = Head(inbox[Other]).data.from]
    /\ UNCHANGED <<vars, localVars, toServer, toClient, got, peerTimer, view>>

\* Nothing is under way: no message on the wire, no handler running, no
\* render due at either client.
Calm ==
    /\ Idle /\ toServer = <<>> /\ demand.asked = 0
    /\ \A c \in {Me, Other} : inbox[c] = <<>>
    /\ ~ RenderDue
    /\ demand.seen = << view[Other].userId, view[Other].controllerId >>

\* the server handles a message of the client or of Other
Served ==
    \/ Sends("session:join")
       /\ SessionJoin(Me, "s1", Head(toServer).data.name)
    \/ Sends("control:accept") /\ ControlAccept(Me, "s1")
    \/ Sends("control:decline")
       /\ ControlDecline(Me, "s1", Head(toServer).data.fromId)
    \/ Sends("webrtc:offer")
       /\ Relay(Me, "webrtc:offer", Head(toServer).data.to, "sdp")
    \/ /\ Other \notin rooms["s1"]
       /\ SessionJoin(Other, "s1", CHOOSE n \in Names(Other) : TRUE)
    \/ demand.asked > 0 /\ ViewerJoin(Other, "s1")

\* the client handles a message of the server
Took ==
    \/ /\ Takes("session:joined")
       /\ OnSessionJoined(Head(inbox[Me]).data.controllerId, NullBlob,
                          Head(inbox[Me]).data.users)
       /\ Taken
    \/ /\ Takes("control:changed")
       /\ OnControlChanged(Head(inbox[Me]).data.controllerId)
       /\ Taken
    \/ /\ Takes("webrtc:viewer-join")
       /\ OnViewerJoin(Head(inbox[Me]).data.viewerId)
       /\ Taken
    \/ /\ Takes("control:offer")
       /\ \E accepted \in BOOLEAN :
              OnControlOffer(Head(inbox[Me]).data.fromId, accepted)
       /\ Taken

\* Other handles a message of the server, or renders
Viewed ==
    \/ ViewJoined(Other)
    \/ ViewControlChanged(Other)
    \/ ViewCommit
    \/ ViewOffer

OfferNext ==
    \/ Served
    \/ Calm /\ Other \in rooms["s1"] /\ ControlAccept(Other, "s1")
    \/ Calm /\ Other \in rooms["s1"] /\ ControlOffer(Other, "s1", Me)
    \/ Forwarded
    \/ Took
    \/ Commit /\ Own
    \/ onCanvasReady /\ Own
    \/ \E v \in Viewers : OfferCreated(v) /\ Own
    \/ Viewed

SpecOffer == InitSync /\ [][OfferNext]_allVars

\* Every message on the wire is delivered and handled, every render that is
\* due is committed, the canvas of a mounted scene is handed over and an
\* offer that is being created is completed.  When Other takes or offers
\* the role, and what the user of the client answers, is left open.
FairOffer ==
    /\ SpecOffer
    /\ WF_allVars(Served)
    /\ WF_allVars(Forwarded)
    /\ WF_allVars(Took)
    /\ WF_allVars(Commit /\ Own)
    /\ WF_allVars(onCanvasReady /\ Own)
    /\ \A v \in Viewers : WF_allVars(OfferCreated(v) /\ Own)
    /\ WF_allVars(Viewed)

\* ================================================================ claims
\* What the handler that ran last was given and what it started from.
IsUpdate == msg.ev \in {"scene:update", "photos:update"}

\* the session the message names existed when its handler started
Named(sid) == msg.sessionId = sid /\ sid \in DOMAIN prev

\* the sender held the controller role of sid when its handler started
ByController(sid) == Named(sid) /\ prev[sid].controllerId = msg.from

\* the fields an update names, with their values
Delta ==
    IF msg.ev = "scene:update" THEN msg.sceneState ELSE [photos |-> msg.photos]

Members(sid) == UserIds(sessions[sid].users)

\* C1: in every session of the registry, controllerId is null or a key of
\* the session's users map, whatever messages the connected sockets sent.
C1_ControllerIsUser ==
    \A sid \in DOMAIN sessions :
        \/ sessions[sid].controllerId = Null
        \/ sessions[sid].controllerId \in Members(sid)

\* C2: no session of the registry has an empty users map, and the disconnect
\* of a session's last member removes the session in the same handler run.
C2_NoEmptySession ==
    /\ \A sid \in DOMAIN sessions : Len(sessions[sid].users) > 0
    /\ msg.ev = "disconnect" =>
           \A sid \in DOMAIN prev :
               UserIds(prev[sid].users) = {msg.from} => sid \notin DOMAIN sessions

\* C2 witness: the last member of a session has just disconnected and the
\* session is gone.
C2_Witness ==
    /\ msg.ev = "disconnect"
    /\ \E sid \in DOMAIN prev :
           /\ UserIds(prev[sid].users) = {msg.from}
           /\ sid \notin DOMAIN sessions

\* C3: a scene:update or photos:update whose sender is not the session's
\* controller when the server processes it changes nothing in the registry
\* (so the blob is unchanged) and causes no emit at all, neither a broadcast
\* nor a reply to the sender.
C3_UnauthorizedUpdateDropped ==
    \A sid \in SessionIds :
        (IsUpdate /\ Named(sid) /\ ~ ByController(sid)) =>
            /\ sessions = prev
            /\ out = <<>>

\* C3 witness: the earliest member of a session, no longer its controller
\* (another member holds the role), has sent a scene:update that would have
\* changed the blob.
C3_Witness ==
    \E sid \in DOMAIN sessions :
        /\ msg.ev = "scene:update"
        /\ Named(sid)
        /\ Len(prev[sid].users) >= 2
        /\ prev[sid].users[1].id = msg.from
        /\ prev[sid].controllerId \in UserIds(prev[sid].users) \ {msg.from}
        /\ prev[sid].sceneState # NullBlob
        /\ Spread(prev[sid].sceneState, msg.sceneState) # prev[sid].sceneState

\* C4: an authorized update is a shallow field-wise merge: the stored blob
\* has the fields it had and the fields the update names; a field the update
\* does not name keeps its value, a field it names takes the update's value.
C4_ShallowMerge ==
    \A sid \in SessionIds :
        (IsUpdate /\ ByController(sid)) =>
            LET old == prev[sid].sceneState
                new == sessions[sid].sceneState
                had == IF old = NullBlob THEN {} ELSE DOMAIN old
            IN  /\ new # NullBlob
                /\ DOMAIN new = had \cup DOMAIN Delta
                /\ \A k \in had \ DOMAIN Delta : new[k] = old[k]
                /\ \A k \in DOMAIN Delta : new[k] = Delta[k]

\* C4 witness: a scene:update naming only sceneState over a blob that holds
\* another sceneState, a rotationSpeed and photos.
C4_Witness ==
    \E sid \in DOMAIN sessions :
        /\ msg.ev = "scene:update"
        /\ ByController(sid)
        /\ msg.sceneState = [sceneState |-> "CAROUSEL"]
        /\ prev[sid].sceneState =
               [sceneState |-> "CHAOS", rotationSpeed |-> 1, photos |-> <<"p1">>]
        /\ sessions[sid].sceneState =
               [sceneState |-> "CAROUSEL", rotationSpeed |-> 1, photos |-> <<"p1">>]

\* C5: an authorized scene:update (photos:update) causes exactly one emit,
\* scene:state (photos:update), whose payload is the partial payload the
\* controller sent and whose receivers are the members of the session other
\* than the sender.
C5_DeltaToOthers ==
    \A sid \in SessionIds :
        (IsUpdate /\ ByController(sid)) =>
            out = << [to   |-> Members(sid) \ {msg.from},
                      ev   |-> IF msg.ev = "scene:update"
                               THEN "scene:state" ELSE "photos:update",
                      data |-> IF msg.ev = "scene:update"
                               THEN [sceneState |-> msg.sceneState]
                               ELSE [photos |-> msg.photos]] >>

\* C5 witness: a controller that is a member has sent a scene:update that
\* differs from the merged blob, with two other members in the room.
C5_Witness ==
    \E sid \in DOMAIN sessions :
        /\ msg.ev = "scene:update"
        /\ ByController(sid)
        /\ msg.from \in Members(sid)
        /\ Cardinality(Members(sid) \ {msg.from}) = 2
        /\ sessions[sid].sceneState # msg.sceneState
        /\ Len(out) = 1
        /\ out[1].to = Members(sid) \ {msg.from}

\* the ids of a users list, in its order
IdsOf(list) == [i \in 1..Len(list) |-> list[i].id]

\* C6: the socket whose session:join creates a session becomes its
\* controller, and a session:join handled while the session has a controller
\* leaves controllerId as it was.
C6_JoinElectsOnlyWhenUnassigned ==
    \A sid \in SessionIds :
        (msg.ev = "session:join" /\ msg.sessionId = sid) =>
            /\ sid \in DOMAIN sessions
            /\ sid \notin DOMAIN prev => sessions[sid].controllerId = msg.from
            /\ (sid \in DOMAIN prev /\ prev[sid].controllerId # Null) =>
                   sessions[sid].controllerId = prev[sid].controllerId

\* C6 witness: a socket has joined a session that another socket controls.
C6_Witness ==
    \E sid \in DOMAIN sessions :
        /\ msg.ev = "session:join"
        /\ Named(sid)
        /\ msg.from \notin UserIds(prev[sid].users)
        /\ prev[sid].controllerId \notin {Null, msg.from}
        /\ sessions[sid].controllerId = prev[sid].controllerId

\* C7: session:join emits session:joined to the joiner alone, with the ids
\* and names of all members in insertion order (the earlier members in their
\* order, the joiner after them when it is new), the session's controllerId
\* and blob; and session:user-joined, with the joiner's id and name, to the
\* members other than the joiner.
C7_JoinReplies ==
    \A sid \in SessionIds :
        (msg.ev = "session:join" /\ msg.sessionId = sid) =>
            LET before == IF sid \in DOMAIN prev THEN prev[sid].users ELSE <<>>
                blob   == IF sid \in DOMAIN prev THEN prev[sid].sceneState
                          ELSE NullBlob
            IN  /\ Len(out) = 2
                /\ out[1].ev = "session:joined"
                /\ out[1].to = {msg.from}
                /\ out[1].data.sessionId = sid
                /\ out[1].data.userId = msg.from
                /\ out[1].data.users = sessions[sid].users
                /\ IdsOf(out[1].data.users) =
                       IF msg.from \in UserIds(before) THEN IdsOf(before)
                       ELSE Append(IdsOf(before), msg.from)
                /\ \E i \in 1..Len(out[1].data.users) :
                       out[1].data.users[i] = [id |-> msg.from, name |-> msg.name]
                /\ out[1].data.controllerId = sessions[sid].controllerId
                /\ out[1].data.sceneState = blob
                /\ sessions[sid].sceneState = blob
                /\ out[2].ev = "session:user-joined"
                /\ out[2].to = Members(sid) \ {msg.from}
                /\ out[2].data = [user |-> [id |-> msg.from, name |-> msg.name]]

\* C7 witness: a third socket has joined a session of two that holds a blob.
C7_Witness ==
    \E sid \in DOMAIN sessions :
        /\ msg.ev = "session:join"
        /\ Named(sid)
        /\ Len(prev[sid].users) = 2
        /\ msg.from \notin UserIds(prev[sid].users)
        /\ prev[sid].sceneState # NullBlob
        /\ Len(out[1].data.users) = 3
        /\ Cardinality(out[2].to) = 2

\* C8: control:accept for a session of the registry makes the sender the
\* controller, whoever held the role; it emits control:changed naming the
\* sender to all members of the room, then scene:sync with the session's
\* blob to the sender alone.
C8_AcceptTakesControl ==
    \A sid \in SessionIds :
        (msg.ev = "control:accept" /\ Named(sid)) =>
            /\ sessions[sid].controllerId = msg.from
            /\ sessions[sid].sceneState = prev[sid].sceneState
            /\ out = << [to   |-> Members(sid),
                         ev   |-> "control:changed",
                         data |-> [controllerId |-> msg.from]],
                        [to   |-> {msg.from},
                         ev   |-> "scene:sync",
                         data |-> [sceneState |-> sessions[sid].sceneState]] >>

\* C8 witness: a member has taken the role from another member, in a room of
\* three with a blob.
C8_Witness ==
    \E sid \in DOMAIN sessions :
        /\ msg.ev = "control:accept"
        /\ Named(sid)
        /\ msg.from \in Members(sid)
        /\ prev[sid].controllerId \in Members(sid) \ {msg.from}
        /\ Cardinality(Members(sid)) = 3
        /\ sessions[sid].sceneState # NullBlob
        /\ sessions[sid].controllerId = msg.from

\* the departing socket was a user of sid and its controller, and users remain
Failover(sid) ==
    /\ msg.ev = "disconnect"
    /\ sid \in DOMAIN prev
    /\ msg.from \in UserIds(prev[sid].users)
    /\ prev[sid].controllerId = msg.from
    /\ Len(prev[sid].users) >= 2

Remaining(sid) == SelectSeq(prev[sid].users, LAMBDA u : u.id # msg.from)

\* C9: when the controller, a user of the session, disconnects and users
\* remain, the new controllerId is the first remaining user in insertion
\* order; control:changed naming it is emitted to all remaining members and
\* scene:sync with the blob right after it to the successor alone; no
\* scene:sync reaches a socket that did not succeed the departing one.
C9_FailoverElectsEarliest ==
    \A sid \in SessionIds :
        Failover(sid) =>
            LET successor == Remaining(sid)[1].id
            IN  /\ sid \in DOMAIN sessions
                /\ sessions[sid].controllerId = successor
                /\ \E i \in 1..(Len(out) - 1) :
                       /\ out[i] = [to   |-> Members(sid),
                                    ev   |-> "control:changed",
                                    data |-> [controllerId |-> successor]]
                       /\ out[i + 1] = [to   |-> {successor},
                                        ev   |-> "scene:sync",
                                        data |-> [sceneState |->
                                                    sessions[sid].sceneState]]
                /\ sessions[sid].sceneState = prev[sid].sceneState
                /\ \A i \in 1..Len(out) :
                       out[i].ev = "scene:sync" =>
                           \E other \in DOMAIN sessions :
                               /\ prev[other].controllerId = msg.from
                               /\ out[i].to = {sessions[other].controllerId}

\* C9 witness: a controller has disconnected from a session of three that
\* holds a blob, and the earlier of the two remaining users has the role.
C9_Witness ==
    \E sid \in DOMAIN sessions :
        /\ Failover(sid)
        /\ Len(prev[sid].users) = 3
        /\ prev[sid].users[1].id # msg.from
        /\ prev[sid].sceneState # NullBlob
        /\ sessions[sid].controllerId = sessions[sid].users[1].id

\* C10: a control:offer whose sender is not the session's controller changes
\* nothing and emits nothing; one from the controller changes nothing in the
\* registry and emits control:offer {fromId, fromName} once, to the named
\* target alone.
C10_OfferOnlyFromController ==
    \A sid \in SessionIds :
        (msg.ev = "control:offer" /\ Named(sid)) =>
            /\ sessions = prev
            /\ ~ ByController(sid) => out = <<>>
            /\ ByController(sid) =>
                   /\ Len(out) = 1
                   /\ out[1].ev = "control:offer"
                   /\ out[1].to = {msg.targetId} \cap connected
                   /\ out[1].data.fromId = msg.from
                   /\ \A i \in 1..Len(prev[sid].users) :
                          prev[sid].users[i].id = msg.from =>
                              out[1].data.fromName = prev[sid].users[i].name
                   /\ msg.from \notin UserIds(prev[sid].users) =>
                          out[1].data.fromName = "Host"

\* C10 witness: a member that is not the controller has offered control to
\* another connected member, and nothing was emitted.
C10_Witness ==
    \E sid \in DOMAIN sessions :
        /\ msg.ev = "control:offer"
        /\ Named(sid)
        /\ msg.from \in Members(sid)
        /\ prev[sid].controllerId \in Members(sid) \ {msg.from}
        /\ msg.targetId \in Members(sid) \ {msg.from}
        /\ out = <<>>

\* C11: control:request changes nothing in the registry; when the session
\* has a controller the only emit is control:requested, with the sender's id
\* as requesterId, to the socket that controllerId names and to no other.
C11_RequestToControllerOnly ==
    \A sid \in SessionIds :
        (msg.ev = "control:request" /\ Named(sid)) =>
            /\ sessions = prev
            /\ prev[sid].controllerId # Null
            /\ Len(out) = 1
            /\ out[1].ev = "control:requested"
            /\ out[1].to = {prev[sid].controllerId} \cap connected
            /\ out[1].data.requesterId = msg.from

\* C11 witness: a member has asked for control in a room of three and the
\* notice went to the controller alone.
C11_Witness ==
    \E sid \in DOMAIN sessions :
        /\ msg.ev = "control:request"
        /\ Named(sid)
        /\ Cardinality(Members(sid)) = 3
        /\ msg.from # prev[sid].controllerId
        /\ out[1].to = {prev[sid].controllerId}

\* C12: control:decline changes nothing in the registry, and its only emit
\* is control:declined, with the sender's id as targetId, to the socket that
\* fromId names and to no other.
C12_DeclineToFromIdOnly ==
    \A sid \in SessionIds :
        (msg.ev = "control:decline" /\ Named(sid)) =>
            /\ sessions = prev
            /\ Len(out) = 1
            /\ out[1].ev = "control:declined"
            /\ out[1].to = {msg.fromId} \cap connected
            /\ out[1].data.targetId = msg.from

\* C12 witness: a member has declined towards a member that is not the
\* controller, in a room of three.
C12_Witness ==
    \E sid \in DOMAIN sessions :
        /\ msg.ev = "control:decline"
        /\ Named(sid)
        /\ Cardinality(Members(sid)) = 3
        /\ msg.fromId \in Members(sid) \ {msg.from, prev[sid].controllerId}
        /\ out[1].to = {msg.fromId}

SessionScoped ==
    { "scene:update", "photos:update", "control:request", "control:offer",
      "control:accept", "control:decline", "webrtc:viewer-join" }

\* C13: a message other than session:join that names a session absent from
\* the registry leaves the registry as it was (no session is created) and
\* causes no emit.
C13_UnknownSessionDropped ==
    (msg.ev \in SessionScoped /\ msg.sessionId \notin DOMAIN prev) =>
        /\ sessions = prev
        /\ out = <<>>

\* C13 witness: a control:decline naming a connected socket has arrived for
\* a session that is not in the registry, after a socket has gone.
C13_Witness ==
    /\ msg.ev = "control:decline"
    /\ msg.sessionId \notin DOMAIN prev
    /\ msg.fromId \in connected \ {msg.from}
    /\ connected # Sockets
    /\ out = <<>>

\* C15: webrtc:viewer-join changes nothing in the registry; when the session
\* has a controller the only emit is webrtc:viewer-join {viewerId: sender},
\* to the socket controllerId names when the message is handled.
C15_ViewerJoinToController ==
    \A sid \in SessionIds :
        (msg.ev = "webrtc:viewer-join" /\ Named(sid)) =>
            /\ sessions = prev
            /\ prev[sid].controllerId # Null
            /\ out = << [to   |-> {prev[sid].controllerId} \cap connected,
                         ev   |-> "webrtc:viewer-join",
                         data |-> [viewerId |-> msg.from]] >>

\* C15 witness: the earliest member of a room, no longer its controller, has
\* asked for the stream and the join went to the member that holds the role.
C15_Witness ==
    \E sid \in DOMAIN sessions :
        /\ msg.ev = "webrtc:viewer-join"
        /\ Named(sid)
        /\ prev[sid].users[1].id = msg.from
        /\ prev[sid].controllerId \in Members(sid) \ {msg.from}
        /\ out[1].to = {prev[sid].controllerId}

\* C14 (under SpecRelay): webrtc:offer, webrtc:answer and webrtc:ice leave the
\* registry as it was and emit the same event once, to the socket `to` names
\* and to no other, with `from` the sender's id and the offer, answer or
\* candidate as it was sent.
C14_RelayToTargetOnly ==
    msg.ev \in RelayEvents =>
        /\ sessions = prev
        /\ Len(out) = 1
        /\ out[1].ev = msg.ev
        /\ out[1].to = {msg.to} \cap connected
        /\ DOMAIN out[1].data = {"from", RelayField(msg.ev)}
        /\ out[1].data.from = msg.from
        /\ out[1].data[RelayField(msg.ev)] = msg.payload

\* C14 witness: a socket that is in no session has relayed an answer to a
\* member of a session that has another member.
C14_Witness ==
    \E sid \in DOMAIN sessions :
        /\ msg.ev = "webrtc:answer"
        /\ msg.from \notin Members(sid)
        /\ msg.to \in Members(sid)
        /\ Cardinality(Members(sid)) = 2
        /\ out[1].to = {msg.to}
        /\ out[1].data = [from |-> msg.from, answer |-> "sdp2"]

\* ------------------------------------------------------- client claims
\* The scene:update a timer callback emits for the values v.
SceneUpdateOf(v) ==
    ClientEmit("scene:update",
               [sessionId |-> "s1",
                sceneState |-> [sceneState |-> v.sceneState,
                                rotationSpeed |-> v.rotationSpeed]])

\* The debounce timer is due.
TimerDue == sceneUpdateTimeout.pending /\ sceneUpdateTimeout.left = 0

\* C16 (under SpecScene): while the client stays authoritative, the changes
\* of local sceneState and rotationSpeed that follow one another by less than
\* 150 ms cause exactly one scene:update: it is emitted 150 ms after the last
\* of them, carries the values of the last of them, and by the time 150 ms
\* have passed it is either emitted or due, and never emitted twice.
C16_OneUpdatePerBurst ==
    burst >= 1 =>
        /\ sentSince <= 1
        /\ step.ev = "timer" =>
              /\ sent = << SceneUpdateOf(rendered) >>
              /\ elapsed = DebounceMs
              /\ sentSince = 1
        /\ (mounted /\ Closure /\ ~ RenderDue /\ elapsed = DebounceMs) =>
              (sentSince = 1 \/ TimerDue)

\* C16 witness: two changes less than 150 ms apart, the second one of
\* rotationSpeed, and the one scene:update that carries the second.
C16_Witness ==
    /\ step.ev = "timer"
    /\ burst >= 2
    /\ sentSince = 1
    /\ sent = << SceneUpdateOf([sceneState |-> "CAROUSEL", rotationSpeed |-> 1]) >>

\* The client is in receptive mode: it is not the controller it knows of.
Receptive == ~ Truthy(isController(userId, controllerId))

\* The steps that are local input: a gesture, a move, an upload and the end
\* of an upload's compression.
LocalInputs == { "gesture", "move", "upload", "compressed" }

\* C17 (under SpecScene): at every moment at which the client is in receptive
\* mode, no local-input handler changes its local sceneState, rotationSpeed
\* or photos: not a gesture, not a move, and not an upload that began while
\* the client was controller and finishes compressing after it lost the role.
C17_InputsInertWhileReceptive ==
    [][ (Receptive /\ step'.ev \in LocalInputs) => UNCHANGED sceneVars ]_allVars

\* C18 (under SpecPeer): once the effects of a render that took the client
\* from authoritative to receptive have run, and for as long as the committed
\* render is a receptive one, the outbound Map is empty and every outbound
\* connection ever made is closed, no offer is in the making, the
\* pending-viewer queue is empty, and no capture stream is held or has running tracks.
C18_ReceptiveHoldsNothing ==
    ~ Closure =>
        /\ peerConnectionsRef = {}
        /\ openOut = 0
        /\ negotiating = {}
        /\ pendingViewersRef = <<>>
        /\ ~ localStreamRef
        /\ liveStreams = 0

\* C18 witness: the render that took the role from a controller that was
\* streaming to two viewers has closed both connections and the stream.
C18_Witness ==
    /\ step.ev = "commit"
    /\ ~ Closure
    /\ Receptive
    /\ canvasRef
    /\ closed = 2
    /\ openOut = 0
    /\ liveStreams = 0

\* C19 (under SpecPeer): when the component has unmounted (Leave, or any
\* other way of leaving the session page), every peer connection it owns is
\* closed (each outbound one and the inbound one), no debounce timer is
\* pending, and the tracks of its capture stream are stopped.
C19_UnmountReleasesAll ==
    ~ mounted =>
        /\ openOut = 0
        /\ openIn = 0
        /\ ~ sceneUpdateTimeout.pending
        /\ liveStreams = 0

Range(q) == { q[i] : i \in 1..Len(q) }

\* The viewers a step that found the queue `queueBefore` and made capture
\* available has to send offers for, in order.
Drained ==
    IF step.ev = "webrtc:viewer-join"
    THEN Append(queueBefore, step.id) ELSE queueBefore

C21_OneInboundConnection ==
    /\ openIn <= 1
    /\ (viewerPeerRef # Null) <=> (openIn = 1)
    /\ (step.ev = "webrtc:offer" /\ ~ isControllerRef) =>
          /\ viewerPeerRef = step.id
          /\ openIn = 1
          /\ closedIn <= 1

\* C21 witness: a viewer that held an inbound connection has handled the
\* offer of socket 3; the old connection is closed and the new one is held.
C21_Witness ==
    /\ step = [ev |-> "webrtc:offer", id |-> 3]
    /\ ~ isControllerRef
    /\ closedIn = 1
    /\ openIn = 1
    /\ viewerPeerRef = 3

\* C22 (under SpecPeer): the inbound connection a viewer holds comes from the
\* socket its controllerId names, and a webrtc:offer from any other socket
\* closes and replaces nothing.
C22_InboundFromController ==
    (mounted /\ userId # Null /\ Receptive) =>
        /\ viewerPeerRef # Null => viewerPeerRef = controllerId
        /\ (step.ev = "webrtc:offer" /\ step.id # controllerId) =>
              (closedIn = 0 /\ viewerPeerRef # step.id)

\* C23 (under SpecPeer): a controller has one open outbound connection for
\* each key of its Map and no other; a webrtc:viewer-join from a viewer that
\* has an entry closes that viewer's connection and no other, makes one new
\* connection, for that viewer, and leaves the keys of the Map as they were.
C23_OneOutboundPerViewer ==
    /\ openOut = Cardinality(peerConnectionsRef)
    /\ (step.ev = "webrtc:viewer-join" /\ isControllerRef
            /\ step.id \in peersBefore) =>
          /\ closed = 1
          /\ closedFor = {step.id}
          /\ offered = << step.id >>
          /\ peerConnectionsRef = peersBefore

\* C23 witness: a controller with connections to viewers 2 and 3 has handled
\* a second webrtc:viewer-join of viewer 2.
C23_Witness ==
    /\ step = [ev |-> "webrtc:viewer-join", id |-> 2]
    /\ peersBefore = {2, 3}
    /\ closedFor = {2}
    /\ peerConnectionsRef = {2, 3}
    /\ openOut = 2

\* C24 (under SpecScene): the step in which the compression of an upload
\* ends emits photos:update with the compressed photos, and leaves the
\* debounce timer as it found it, pending or not and with the time it had
\* left; no other step emits a photos:update, and the scene:update of the
\* timer carries sceneState and rotationSpeed only.
C24_PhotosBypassDebounce ==
    /\ (step.ev = "compressed" /\ mounted) =>
          /\ sent = << ClientEmit("photos:update",
                                  [sessionId |-> "s1", photos |-> photos]) >>
          /\ sceneUpdateTimeout = timerBefore
    /\ \A i \in 1..Len(sent) :
          /\ sent[i].ev = "photos:update" => step.ev = "compressed"
          /\ sent[i].ev = "scene:update" =>
                DOMAIN sent[i].data.sceneState = {"sceneState", "rotationSpeed"}

\* C24 witness: the controller's upload ended 100 ms into the debounce
\* interval; the photos went out and the timer has its 50 ms left.
C24_Witness ==
    /\ step.ev = "compressed"
    /\ Closure
    /\ Receptive = FALSE
    /\ sent = << ClientEmit("photos:update",
                            [sessionId |-> "s1", photos |-> <<"p1">>]) >>
    /\ sceneUpdateTimeout.pending
    /\ sceneUpdateTimeout.left = Quantum

\* C29 (under SpecScene): once the effects of the render that took the client
\* out of authoritative mode have run, no debounce timer is pending, and it
\* stays so while the committed render is a receptive one: a scene:update is
\* emitted by the timer only, and only under an authoritative render.
C29_TimerCancelledOnRoleLoss ==
    /\ ~ Closure => ~ sceneUpdateTimeout.pending
    /\ step.ev = "timer" => Closure
    /\ \A i \in 1..Len(sent) : sent[i].ev = "scene:update" => step.ev = "timer"

\* C29 witness: the render that took the role away found a timer pending,
\* part of its interval gone, and cancelled it.
C29_Witness ==
    /\ step.ev = "commit"
    /\ ~ Closure
    /\ Receptive
    /\ timerBefore.pending
    /\ timerBefore.left < DebounceMs
    /\ ~ sceneUpdateTimeout.pending

\* C25 (under SpecLobby): after the client has handled a control:changed its
\* map of pending requests is empty; after it has handled session:user-left
\* the map has lost the request of the user that left, if it had one, and
\* holds every other request as it was.
C25_RequestsClearedOrPruned ==
    /\ step.ev = "control:changed" => DOMAIN pendingRequests = {}
    /\ step.ev = "session:user-left" =>
          /\ DOMAIN pendingRequests = DOMAIN requestsBefore \ {step.id}
          /\ \A k \in DOMAIN pendingRequests :
                pendingRequests[k] = requestsBefore[k]

\* C25 witness: sockets 2 and 3 had asked for control; socket 2 left, and
\* the request of socket 3 is still there.
C25_Witness ==
    /\ step = [ev |-> "session:user-left", id |-> 2]
    /\ DOMAIN requestsBefore = {2, 3}
    /\ DOMAIN pendingRequests = {3}
    /\ pendingRequests[3] = "bob"

\* the sessions socket s was a user of before the handler ran
JoinedBefore(s) == { sid \in DOMAIN prev : UsersHas(prev[sid].users, s) }

\* the session:user-left emits of the handler that ran last
LeftEmits == SelectSeq(out, LAMBDA e : e.ev = "session:user-left")

\* C26 (under SpecTwo): once the disconnect of a socket has been handled,
\* no session has the socket among its users; for each session it had
\* joined exactly one session:user-left with its id was emitted, to the
\* members that remain in that session; and a socket that shares no session
\* with it receives none.
C26_DisconnectLeavesEverySession ==
    msg.ev = "disconnect" =>
        /\ \A sid \in DOMAIN sessions : ~ UsersHas(sessions[sid].users, msg.from)
        /\ Len(LeftEmits) = Cardinality(JoinedBefore(msg.from))
        /\ \A sid \in JoinedBefore(msg.from) :
              \E i \in 1..Len(LeftEmits) :
                  /\ LeftEmits[i].to = UserIds(prev[sid].users) \ {msg.from}
                  /\ LeftEmits[i].data = [userId |-> msg.from]
        /\ \A i \in 1..Len(LeftEmits) :
              /\ LeftEmits[i].data = [userId |-> msg.from]
              /\ \A t \in LeftEmits[i].to :
                    \E sid \in JoinedBefore(msg.from) :
                        UsersHas(prev[sid].users, t)

\* C26 witness: socket 1 was with socket 2 in the first session and with
\* socket 3 in the second; its disconnect told each of them once.
C26_Witness ==
    /\ msg.ev = "disconnect" /\ msg.from = 1
    /\ JoinedBefore(1) = {"s1", "s2"}
    /\ Len(LeftEmits) = 2
    /\ { LeftEmits[i].to : i \in 1..2 } = { {2}, {3} }
    /\ \A sid \in DOMAIN sessions : ~ UsersHas(sessions[sid].users, 1)

\* C26 witness of the other half: socket 2 was in the first session only,
\* and socket 3, a member of the second, was told nothing.
C26_WitnessUntouched ==
    /\ msg.ev = "disconnect" /\ msg.from = 2
    /\ JoinedBefore(2) = {"s1"}
    /\ "s2" \in DOMAIN prev /\ UsersHas(prev["s2"].users, 3)
    /\ Len(LeftEmits) = 1 /\ LeftEmits[1].to = {1}

\* the events the server emits to the room of a session
RoomEvents ==
    { "session:user-joined", "scene:state", "photos:update", "control:changed" }

\* C28 (under SpecTwo): a handled message other than disconnect, naming
\* session S, leaves every other session as it was (present or absent, its
\* users, controllerId and sceneState), and each room broadcast it emitted
\* is addressed to users of S only, so a socket that is a member of other
\* sessions only receives none.
C28_OtherSessionsUntouched ==
    msg.ev \notin {"none", "disconnect"} =>
        /\ \A sid \in TwoSessions \ {msg.sessionId} :
              /\ sid \in DOMAIN sessions <=> sid \in DOMAIN prev
              /\ sid \in DOMAIN sessions =>
                    /\ sessions[sid].users = prev[sid].users
                    /\ sessions[sid].controllerId = prev[sid].controllerId
                    /\ sessions[sid].sceneState = prev[sid].sceneState
        /\ \A i \in 1..Len(out) :
              out[i].ev \in RoomEvents =>
                  /\ Has(msg.sessionId)
                  /\ out[i].to \subseteq UserIds(sessions[msg.sessionId].users)

\* C28 witness: socket 2 controls the first session, where socket 1 is a
\* viewer; sockets 1 and 3 are in the second.  The scene:update of socket 2
\* changed the first session's blob, reached socket 1 only, and the second
\* session is as it was.
C28_Witness ==
    /\ msg.ev = "scene:update" /\ msg.sessionId = "s1" /\ msg.from = 2
    /\ DOMAIN sessions = TwoSessions /\ DOMAIN prev = TwoSessions
    /\ sessions["s1"].sceneState # prev["s1"].sceneState
    /\ Len(out) = 1 /\ out[1].ev = "scene:state" /\ out[1].to = {1}
    /\ UserIds(sessions["s2"].users) = {1, 3}
    /\ sessions["s2"] = prev["s2"]

\* C27 (under SpecSync): when the client has handled a scene:sync that the
\* server sent while its blob was not null, its sceneState and rotationSpeed
\* are the blob's of that moment (undefined where the blob had no such
\* field), and its photos are the blob's photos when the blob had photos.
C27_SyncRestoresBlob ==
    (got.ev = "scene:sync" /\ got.blob # NullBlob) =>
        /\ sceneState = Get(got.blob, "sceneState", Undefined)
        /\ rotationSpeed = Get(got.blob, "rotationSpeed", NoSpeed)
        /\ HasField(got.blob, "photos") => photos = got.blob.photos

\* C27 witness: the client had a scene of its own that the server never got
\* (the render before the message shows it); it took the role back and the
\* scene:sync put the blob's scene in its place.
C27_Witness ==
    /\ got.ev = "scene:sync" /\ step.ev = "scene:sync"
    /\ got.blob # NullBlob /\ HasField(got.blob, "sceneState")
    /\ rendered.sceneState # got.blob.sceneState
    /\ sceneState = got.blob.sceneState
    /\ Has("s1") /\ sessions["s1"].controllerId = Me

\* Nothing is in flight, no handler is running, no render, compression or
\* debounce timer of either client is pending: whatever time passes now,
\* nothing happens until someone acts.
Quiet ==
    /\ Idle /\ toServer = <<>> /\ toClient = <<>>
    /\ mounted /\ ~ RenderDue /\ compressing = {}
    /\ ~ sceneUpdateTimeout.pending /\ ~ peerTimer

\* this client is a member of the session and knows that the other holds
\* the role
ReceptiveMember ==
    /\ Has("s1") /\ UsersHas(sessions["s1"].users, Me)
    /\ userId = Me /\ controllerId = Other
    /\ sessions["s1"].controllerId = Other

\* C30 (under SpecSync): in a quiet state where this client is a receptive
\* member, each of sceneState and rotationSpeed that the server's blob has
\* is the client's own, and so are the blob's photos when it has photos.
C30_QuietMembersAgree ==
    (Quiet /\ ReceptiveMember /\ Blob # NullBlob) =>
        /\ HasField(Blob, "sceneState") => sceneState = Blob.sceneState
        /\ HasField(Blob, "rotationSpeed") => rotationSpeed = Blob.rotationSpeed
        /\ HasField(Blob, "photos") => photos = Blob.photos

\* C31 (under Spec): whatever handler ran last, every session of the
\* registry that has a user has a controllerId that is not null.
C31_MembersHaveController ==
    \A sid \in DOMAIN sessions :
        Len(sessions[sid].users) > 0 => sessions[sid].controllerId # Null

\* C31 witness: the controller, a user of the session, has disconnected,
\* users remain and the session has a controller again.
C31_Witness ==
    /\ msg.ev = "disconnect"
    /\ \E sid \in DOMAIN sessions :
           /\ prev[sid].controllerId = msg.from
           /\ UsersHas(prev[sid].users, msg.from)
           /\ Len(sessions[sid].users) > 0
           /\ sessions[sid].controllerId \in Members(sid)

\* C32 (under Spec): once the disconnect of a socket has been handled, no
\* session of the registry has that socket as its controllerId.
C32_NoDisconnectedController ==
    msg.ev = "disconnect" =>
        \A sid \in DOMAIN sessions : sessions[sid].controllerId # msg.from

\* C39 (under SpecScene): a step of handleGesture takes sceneState into
\* PHOTO only from CAROUSEL and out of PHOTO only to CAROUSEL; a PHOTO
\* gesture in a state other than CAROUSEL, and a CHAOS, FORMED or PHOTO
\* gesture in PHOTO, leave sceneState as it was.
C39_PhotoOnlyViaCarousel ==
    [][\A g \in SceneStates :
          handleGesture(g) =>
              /\ (g = "PHOTO" /\ sceneState # "CAROUSEL") =>
                    sceneState' = sceneState
              /\ (sceneState = "PHOTO" /\ g # "CAROUSEL") =>
                    sceneState' = sceneState
              /\ (sceneState' = "PHOTO" /\ sceneState # "PHOTO") =>
                    sceneState = "CAROUSEL"
              /\ (sceneState = "PHOTO" /\ sceneState' # "PHOTO") =>
                    sceneState' = "CAROUSEL"]_allVars

\* C39 witness: a gesture of the controller has taken the scene, rendered
\* as CAROUSEL, into PHOTO.
C39_Witness ==
    /\ step.ev = "gesture" /\ Closure
    /\ rendered.sceneState = "CAROUSEL"
    /\ sceneState = "PHOTO"

\* C40 (under Spec): a session:join that names a session id the registry
\* does not hold, also the id of a session deleted earlier with its blob,
\* leaves a session whose only user is the joiner, whose controller is the
\* joiner and whose sceneState is null; the joiner is told so.
C40_RejoinIsFresh ==
    \A sid \in SessionIds :
        (msg.ev = "session:join" /\ msg.sessionId = sid /\ sid \notin DOMAIN prev) =>
            /\ sessions[sid] = [users |-> << [id |-> msg.from, name |-> msg.name] >>,
                                controllerId |-> msg.from,
                                sceneState |-> NullBlob]
            /\ out[1].data.sceneState = NullBlob
            /\ out[1].data.controllerId = msg.from

\* C40 witness: the session was deleted while it held a blob, and a socket
\* has joined under the same id since.
C40_Witness ==
    /\ msg.ev = "session:join" /\ msg.sessionId \notin DOMAIN prev
    /\ buried = msg.sessionId
    /\ sessions[msg.sessionId].sceneState = NullBlob
    /\ UserIds(sessions[msg.sessionId].users) = {msg.from}

\* C36 (under SpecSync): when the client has handled a session:joined, a
\* scene:state or a scene:sync, its sceneState is one of CHAOS, FORMED,
\* CAROUSEL and PHOTO, whatever blob the server held.
C36_SceneStateIsNamed ==
    got.ev \in {"session:joined", "scene:state", "scene:sync"} =>
        sceneState \in SceneStates

\* Every emit of the server has been handled by the client it was for, and
\* no handler of the server is running.
AllDelivered == Idle /\ \A c \in connected : inbox[c] = <<>>

\* C33 (under SpecViews): once every message is delivered, the controllerId
\* of each member of the session is the controllerId the server holds.
C33_MembersKnowController ==
    (AllDelivered /\ Has("s1")) =>
        \A c \in Members("s1") :
            view[c].controllerId = sessions["s1"].controllerId

\* C33 witness: a client that had joined is gone, two members remain, and
\* the role is with a member that is not the earliest one, where only a
\* control:accept puts it.
C33_Witness ==
    /\ AllDelivered /\ Has("s1")
    /\ \E gone \in Sockets \ connected : view[gone].userId = gone
    /\ Cardinality(Members("s1")) >= 2
    /\ sessions["s1"].controllerId \in Members("s1")
    /\ sessions["s1"].controllerId # FirstUserId(sessions["s1"].users)
    /\ \A c \in Members("s1") : view[c].userId = c

\* C34 (under SpecViews): once every message is delivered, the users of
\* each member of the session list the ids of the server's users map, each
\* once and in the order of the map.
C34_MembersKnowUsers ==
    (AllDelivered /\ Has("s1")) =>
        \A c \in Members("s1") :
            [i \in 1..Len(view[c].users) |-> view[c].users[i].id]
                = [i \in 1..Len(sessions["s1"].users) |-> sessions["s1"].users[i].id]

\* C34 witness: a client that had joined is gone; of the two members that
\* remain, it knew one (which was told of its leaving) and never heard of
\* the other (whose join the first was told of).
C34_Witness ==
    /\ AllDelivered /\ Has("s1")
    /\ \E gone \in Sockets \ connected :
          /\ view[gone].userId = gone
          /\ \E a, b \in Members("s1") :
                /\ a # b
                /\ a \in UserIds(view[gone].users)
                /\ b \notin UserIds(view[gone].users)
                /\ UserIds(view[a].users) = {a, b}

\* C35 (under SpecViews): at most one connected client has a userId and a
\* controllerId that make its isController true.
C35_OneAuthority ==
    Cardinality({ c \in connected :
                     Truthy(isController(view[c].userId, view[c].controllerId)) })
        <= 1

\* C38 (under SpecPeer): a client whose committed render is authoritative
\* and which holds a local capture stream holds a stream that was captured
\* from the canvas of the scene that is mounted.
C38_StreamOfMountedScene ==
    (mounted /\ Closure /\ localStreamRef) => streamMounted

\* C37 (under FairOffer): when the other member has joined, is not the
\* controller and knows that the client is, it gets a webrtc:offer from the
\* client, unless it hears of another controller first.
C37_ViewerGetsOffer ==
    (demand.seen = << Other, Me >>)
        ~> (demand.offerFrom = Me \/ demand.seen # << Other, Me >>)

====
